---------------------------- MODULE Spec2Model ----------------------------
(***************************************************************************)
(* A model of package cronjobs (src/cronjobs.go): a scheduler that embeds  *)
(* a robfig/cron/v3 Cron, registers one job per file of a directory        *)
(* (ReadFiles), and reports every execution as a *Run on the buffered      *)
(* channel s.runs, which the Logger goroutine started by Start drains.     *)
(*                                                                         *)
(* The embedded Cron is modelled by what cron/v3 does at the places the    *)
(* source calls it: AddFunc (line 82), Cron.Start (line 93) and Cron.Stop  *)
(* (line 98); its run loop is the goroutine Cron.Start spawns.  The        *)
(* methods of the Cron that the scheduler promotes to its callers (line    *)
(* 23) are actions of their own.  The Go runtime's channel operations      *)
(* (send, receive, close, range) are modelled by their language semantics, *)
(* panics included: cron.New() installs no Recover wrapper, so a panic in  *)
(* any goroutine ends the process.                                         *)
(*                                                                         *)
(* An instant is a whole number of seconds (cron drops the fraction of a   *)
(* second of the instant it computes a fire time from); second 0 is        *)
(* 00:00:00 of Sunday 1 January 2023 in the zone of the process, which is  *)
(* UTC.  Instants and delays from FarFuture on are one value.  A string is *)
(* the sequence of its characters, each a string of length one; the        *)
(* characters are those of ASCII that a TLA+ string can spell.             *)
(***************************************************************************)
EXTENDS Integers, Sequences, FiniteSets, Bags

(***************************************************************************)
(* Bounds of the model.                                                    *)
(***************************************************************************)
\* The clock runs over ProcessStart..(ProcessStart + MaxTime).
MaxTime == 2
\* Capacity of s.runs.  The source makes the channel with room for 128
\* runs (line 34); the model scales the capacity down so that a full
\* channel is reached within the clock's range.
RunsCap == 1
\* Calls of Start, of Stop and of the embedded Cron's own methods that one
\* behaviour makes, together.
MaxCalls == 3
\* Calls of ReadFiles that one behaviour makes.
MaxReads == 1
\* Executions of jobs that one behaviour starts.
MaxFirings == 2

\* The bounds of the longer run (LongSpec): the last instant of its
\* clock, the capacity of s.runs, the calls of Start and Stop, and the
\* executions started.
LongTime == 3
LongCap == 2
LongCalls == 2
LongFirings == 4

(***************************************************************************)
(* Values.                                                                 *)
(***************************************************************************)
\* The zero time.Time (Next and Prev of an entry that was never scheduled).
Zero == -1

\* The instant at which New is called: 00:00:58 of the first day, so that
\* the first second of a minute comes within the clock's range.
ProcessStart == 58

\* The greatest instant and the greatest delay of the model.
FarFuture == 2000000000

\* What driver.Execute may return: nil or an error value.
ExecuteErrs == {"nil", "E1"}

(***************************************************************************)
(* The file system ReadFiles reads.  A file that cannot be read (a         *)
(* subdirectory, a file without read permission) has readable = FALSE.     *)
(***************************************************************************)
FileA == [name |-> <<"a", ".", "s", "q", "l">>, readable |-> TRUE,
          data |-> <<"-", "-", " ", "c", "r", "o", "n", ":", " ", "@", "e",
                     "v", "e", "r", "y", " ", "1", "s", "\n", "S", "E", "L",
                     "E", "C", "T", " ", "1", ";">>]
FileB == [name |-> <<"b", ".", "s", "q", "l">>, readable |-> TRUE,
          data |-> <<"#", " ", "c", "r", "o", "n", ":", " ", "*", " ", "*",
                     " ", "*", " ", "*", " ", "*", "\n", "S", "E", "L", "E",
                     "C", "T", " ", "2", ";">>]
\* A second file named a, with another extension, spec and content.
FileATxt == [name |-> <<"a", ".", "t", "x", "t">>, readable |-> TRUE,
             data |-> <<"#", " ", "c", "r", "o", "n", ":", " ", "*", " ",
                        "*", " ", "*", " ", "*", " ", "*", "\n", "S", "E",
                        "L", "E", "C", "T", " ", "5", ";">>]
\* A marker whose spec cron cannot parse.
FileBadSpec == [name |-> <<"a", "a", ".", "s", "q", "l">>, readable |-> TRUE,
                data |-> <<"-", "-", " ", "c", "r", "o", "n", ":", " ", "e",
                           "v", "e", "r", "y", " ", "d", "a", "y", "\n",
                           "S", "E", "L", "E", "C", "T", " ", "3", ";">>]
\* No marker line at all.
FileNoMarker == [name |-> <<"a", "b", ".", "s", "q", "l">>, readable |-> TRUE,
                 data |-> <<"S", "E", "L", "E", "C", "T", " ", "4", ";",
                            "\n">>]
\* A subdirectory: ioutil.ReadDir lists it, ioutil.ReadFile fails on it.
FileSubdir == [name |-> <<"a", ".", "d">>, readable |-> FALSE, data |-> <<>>]

(***************************************************************************)
(* State.                                                                  *)
(***************************************************************************)
VARIABLES
    now,        \* the wall clock (time.Now())
    timer,      \* the instant at which the timer of the run loop expires,
                \* which is the value the loop receives from it; the
                \* zero time before the loop first runs
    entries,    \* c.entries of the embedded Cron, in the loop's order
    nextID,     \* c.nextID of the embedded Cron
    running,    \* c.running of the embedded Cron
    runs,       \* the buffer of channel s.runs
    sendq,      \* goroutines blocked sending on s.runs, first come first;
                \* once the channel is closed, those that close woke
    closed,     \* whether s.runs is closed
    execs,      \* the jobs' goroutines in flight
    loggers,    \* number of live goroutines running s.Logger(s.runs)
    printing,   \* bag of the Runs that Logger goroutines hold, each with
                \* the Printf call that comes next
    stdout,     \* what the Loggers wrote, one element per Printf call
    panicked,   \* the panic that ended the process, or "none"
    reading,    \* the directory of the last ReadFiles call and the index
                \* of the file its loop is at, 0 when it has returned
    readErr,    \* what the last ReadFiles that returned, returned
    call,       \* the call of Start or Stop that is between its two
                \* statements, "none" when there is none
    lifecycle,  \* "new", then the last start or stop of the Cron
    nfired,     \* number of executions the loop has started
    nstarts,    \* calls of Start so far
    nstops,     \* calls of Stop so far
    ndirect,    \* calls of the embedded Cron's own methods so far
    nreads      \* calls of ReadFiles so far

vars == <<now, timer, entries, nextID, running, runs, sendq, closed, execs,
          loggers, printing, stdout, panicked, reading, readErr, call,
          lifecycle, nfired, nstarts, nstops, ndirect, nreads>>

(***************************************************************************)
(* Functions of package strings.                                           *)
(***************************************************************************)
\* The position of the first element of seq that equals x, 0 when there is
\* none (Go counts from 0 and answers -1).
IndexOf(seq, x) ==
    IF \E i \in DOMAIN seq : seq[i] = x
    THEN CHOOSE i \in DOMAIN seq :
             seq[i] = x /\ \A j \in 1..(i - 1) : seq[j] # x
    ELSE 0

\* The position of the last element of seq that equals x, 0 without one.
LastIndexOf(seq, x) ==
    IF \E i \in DOMAIN seq : seq[i] = x
    THEN CHOOSE i \in DOMAIN seq :
             seq[i] = x /\ \A j \in (i + 1)..Len(seq) : seq[j] # x
    ELSE 0

\* strings.HasPrefix.
HasPrefix(s, prefix) ==
    Len(s) >= Len(prefix) /\ SubSeq(s, 1, Len(prefix)) = prefix

\* White space for regexp (`\s`) and for unicode.IsSpace, which
\* strings.Fields and strings.TrimSpace use: among the characters of the
\* model the two agree.
IsSpace(c) == c \in {" ", "\t", "\n", "\f", "\r"}

\* strings.TrimSpace.
TrimSpace(s) ==
    IF \A i \in DOMAIN s : IsSpace(s[i]) THEN <<>>
    ELSE SubSeq(s,
                CHOOSE i \in DOMAIN s :
                    ~IsSpace(s[i]) /\ \A j \in 1..(i - 1) : IsSpace(s[j]),
                CHOOSE i \in DOMAIN s :
                    ~IsSpace(s[i])
                        /\ \A j \in (i + 1)..Len(s) : IsSpace(s[j]))

\* The pieces of s between the characters of seps, empty ones included.
RECURSIVE SplitOn(_, _)
SplitOn(s, seps) ==
    IF \A i \in DOMAIN s : s[i] \notin seps THEN <<s>>
    ELSE <<SubSeq(s, 1, (CHOOSE i \in DOMAIN s :
                            s[i] \in seps
                                /\ \A j \in 1..(i - 1) : s[j] \notin seps)
                        - 1)>>
         \o SplitOn(SubSeq(s, 1 + (CHOOSE i \in DOMAIN s :
                                      s[i] \in seps
                                          /\ \A j \in 1..(i - 1) :
                                                 s[j] \notin seps),
                           Len(s)),
                    seps)

\* strings.Split(s, sep) for a separator of one character.
Split(s, sep) == SplitOn(s, {sep})

\* strings.FieldsFunc: the pieces that are not empty.
FieldsFunc(s, seps) == SelectSeq(SplitOn(s, seps), LAMBDA p : p # <<>>)

\* strings.Fields.
Fields(s) == FieldsFunc(s, {" ", "\t", "\n", "\f", "\r"})

\* strings.ToLower.
UpperCase == <<"A", "B", "C", "D", "E", "F", "G", "H", "I", "J", "K", "L",
               "M", "N", "O", "P", "Q", "R", "S", "T", "U", "V", "W", "X",
               "Y", "Z">>
LowerCase == <<"a", "b", "c", "d", "e", "f", "g", "h", "i", "j", "k", "l",
               "m", "n", "o", "p", "q", "r", "s", "t", "u", "v", "w", "x",
               "y", "z">>
ToLower(s) ==
    [i \in DOMAIN s |->
        IF IndexOf(UpperCase, s[i]) = 0 THEN s[i]
        ELSE LowerCase[IndexOf(UpperCase, s[i])]]

(***************************************************************************)
(* Pure functions of ReadFiles.                                            *)
(***************************************************************************)
\* filepath.Ext(f.Name()): the suffix from the last dot on, "" without one.
Ext(name) ==
    IF LastIndexOf(name, ".") = 0 THEN <<>>
    ELSE SubSeq(name, LastIndexOf(name, "."), Len(name))

\* strings.TrimSuffix(f.Name(), filepath.Ext(f.Name())) (line 71).
JobName(name) == SubSeq(name, 1, Len(name) - Len(Ext(name)))

\* The literal of cronRE.
Marker == <<"c", "r", "o", "n", ":">>

\* The matches of cronRE = `^.*cron:\s+(.*)\n` (line 46) in data, each as
\* <<i, k>>: the marker begins at character i, nothing before it breaks
\* the line (`^.*`), k >= 1 white-space characters follow it (`\s+`, which
\* also takes line breaks), and the line that starts after them ends in
\* "\n".
CronMatches(data) ==
    { m \in (1..Len(data)) \X (1..Len(data)) :
        /\ m[1] + Len(Marker) - 1 + m[2] <= Len(data)
        /\ SubSeq(data, m[1], m[1] + Len(Marker) - 1) = Marker
        /\ \A j \in 1..(m[1] - 1) : data[j] # "\n"
        /\ \A j \in (m[1] + Len(Marker))..(m[1] + Len(Marker) - 1 + m[2]) :
               IsSpace(data[j])
        /\ \E e \in (m[1] + Len(Marker) + m[2])..Len(data) : data[e] = "\n" }

\* The match the regexp engine prefers.  Both `.*` and `\s+` are greedy:
\* the last marker of the first line that matches, then the longest run of
\* white space that still matches.
BestMatch(ms) ==
    CHOOSE x \in ms : \A y \in ms : \/ y[1] < x[1]
                                    \/ (y[1] = x[1] /\ y[2] <= x[2])

\* The whole match and group 1 of a match whose group begins at from: the
\* group ends before the first line break.
Submatches(data, from) ==
    <<SubSeq(data, 1, from - 1 + IndexOf(SubSeq(data, from, Len(data)), "\n")),
      SubSeq(data, from,
             from - 2 + IndexOf(SubSeq(data, from, Len(data)), "\n"))>>

\* cronRE.FindStringSubmatch(content) (line 65): <<>> when there is no
\* match, else <<whole match, group 1>>, of which only group 1 is used.
FindStringSubmatch(data) ==
    IF CronMatches(data) = {} THEN <<>>
    ELSE Submatches(data, BestMatch(CronMatches(data))[1] + Len(Marker)
                              + BestMatch(CronMatches(data))[2])

(***************************************************************************)
(* Numbers in decimal, as strconv and package time read them.  A number    *)
(* too long for the model's integers is kept as its string of digits.     *)
(***************************************************************************)
DecimalDigits == <<"0", "1", "2", "3", "4", "5", "6", "7", "8", "9">>
IsDigit(c) == IndexOf(DecimalDigits, c) # 0
DigitVal(c) == IndexOf(DecimalDigits, c) - 1
AllDigits(s) == \A i \in DOMAIN s : IsDigit(s[i])

\* The number of digits s begins with.
DigitRun(s) ==
    IF AllDigits(s) THEN Len(s)
    ELSE (CHOOSE i \in DOMAIN s :
              ~IsDigit(s[i]) /\ \A j \in 1..(i - 1) : IsDigit(s[j])) - 1

\* The digits without the zeros they begin with.
StripZeros(d) ==
    IF \A i \in DOMAIN d : d[i] = "0" THEN <<>>
    ELSE SubSeq(d, CHOOSE i \in DOMAIN d :
                       d[i] # "0" /\ \A j \in 1..(i - 1) : d[j] = "0",
                Len(d))

\* a <= b for numbers written without leading zeros.
DigitsLeq(a, b) ==
    \/ Len(a) < Len(b)
    \/ /\ Len(a) = Len(b)
       /\ \A i \in DOMAIN a :
              DigitVal(a[i]) > DigitVal(b[i])
                  => \E j \in 1..(i - 1) : DigitVal(a[j]) < DigitVal(b[j])

\* The value of n * 10 + digit, FarFuture when it is that or more.
Sat10(n, digit) ==
    IF n > (FarFuture - digit) \div 10 THEN FarFuture ELSE n * 10 + digit

\* The value of a string of digits, FarFuture when it is that or more.
RECURSIVE NumSat(_)
NumSat(d) ==
    IF d = <<>> THEN 0
    ELSE Sat10(NumSat(SubSeq(d, 1, Len(d) - 1)), DigitVal(d[Len(d)]))

\* The greatest int64, and 1 << 63.
MaxInt64 == <<"9", "2", "2", "3", "3", "7", "2", "0", "3", "6", "8", "5",
              "4", "7", "7", "5", "8", "0", "7">>
Two63 == <<"9", "2", "2", "3", "3", "7", "2", "0", "3", "6", "8", "5", "4",
           "7", "7", "5", "8", "0", "8">>

\* expr without the sign it may begin with, and whether that is a minus.
Unsigned(expr) ==
    IF expr # <<>> /\ expr[1] \in {"+", "-"} THEN Tail(expr) ELSE expr
IsNegative(expr) == expr # <<>> /\ expr[1] = "-"

\* strconv.Atoi(expr) succeeds: an optional sign, then digits that spell
\* a number an int64 holds.
AtoiOk(expr) ==
    /\ Unsigned(expr) # <<>>
    /\ AllDigits(Unsigned(expr))
    /\ DigitsLeq(StripZeros(Unsigned(expr)),
                 IF IsNegative(expr) THEN Two63 ELSE MaxInt64)

(***************************************************************************)
(* cron's standard parser (cron.ParseStandard, reached from AddFunc) and   *)
(* the schedules it builds.                                                *)
(***************************************************************************)
\* A number or the error of a parser of numbers.
IntOk(v) == [err |-> "nil", val |-> v]
IntErr(msg) == [err |-> msg, val |-> 0]

\* mustParseInt of cron.
MustParseInt(expr) ==
    IF ~AtoiOk(expr) THEN IntErr("failed to parse int")
    ELSE IF IsNegative(expr) /\ StripZeros(Unsigned(expr)) # <<>>
    THEN IntErr("negative number not allowed")
    ELSE IntOk(NumSat(Unsigned(expr)))

\* The names cron knows for months and for days of the week.
MonthNames == <<<<"j", "a", "n">>, <<"f", "e", "b">>, <<"m", "a", "r">>, <<
                                                                           "a",
                                                                           "p",
                                                                           "r">>, <<
                                                                                    "m",
                                                                                    "a",
                                                                                    "y">>, <<
                                                                                             "j",
                                                                                             "u",
                                                                                             "n">>,
                <<"j", "u", "l">>, <<"a", "u", "g">>, <<"s", "e", "p">>, <<
                                                                           "o",
                                                                           "c",
                                                                           "t">>, <<
                                                                                    "n",
                                                                                    "o",
                                                                                    "v">>, <<
                                                                                             "d",
                                                                                             "e",
                                                                                             "c">>>>
DowNames == <<<<"s", "u", "n">>, <<"m", "o", "n">>, <<"t", "u", "e">>, <<
                                                                         "w",
                                                                         "e",
                                                                         "d">>, <<
                                                                                  "t",
                                                                                  "h",
                                                                                  "u">>, <<
                                                                                           "f",
                                                                                           "r",
                                                                                           "i">>,
              <<"s", "a", "t">>>>

\* The bounds of the fields of a spec: the least and the greatest value,
\* and the names with the value of the first of them.
Minutes == [min |-> 0, max |-> 59, names |-> <<>>, first |-> 0]
Hours   == [min |-> 0, max |-> 23, names |-> <<>>, first |-> 0]
Dom     == [min |-> 1, max |-> 31, names |-> <<>>, first |-> 0]
Months  == [min |-> 1, max |-> 12, names |-> MonthNames, first |-> 1]
Dow     == [min |-> 0, max |-> 6, names |-> DowNames, first |-> 0]

\* parseIntOrName of cron.
ParseIntOrName(expr, r) ==
    IF IndexOf(r.names, ToLower(expr)) # 0
    THEN IntOk(IndexOf(r.names, ToLower(expr)) - 1 + r.first)
    ELSE MustParseInt(expr)

\* What getRange and getField return: the values, and whether the star bit
\* is set; or an error.
RangeErr(msg) == [err |-> msg, bits |-> {}, star |-> FALSE]

\* The end of getRange of cron: its four checks of start, end and step,
\* the values from start to end by step (getBits), and the star bit, which
\* a step above 1 clears.
GetBits(start, end, step, isStar, r) ==
    IF start < r.min THEN RangeErr("beginning of range below minimum")
    ELSE IF end > r.max THEN RangeErr("end of range above maximum")
    ELSE IF start > end
    THEN RangeErr("beginning of range beyond end of range")
    ELSE IF step = 0
    THEN RangeErr("step of range should be a positive number")
    ELSE [err  |-> "nil",
          bits |-> {v \in start..end : (v - start) % step = 0},
          star |-> isStar /\ step = 1]

\* The step of getRange: 1 without a "/", else the number after it, and
\* then "N/step" means N-max/step.
RangeStep(rangeAndStep, singleDigit, isStar, start, end, r) ==
    IF Len(rangeAndStep) = 1 THEN GetBits(start, end, 1, isStar, r)
    ELSE IF Len(rangeAndStep) > 2 THEN RangeErr("too many slashes")
    ELSE IF MustParseInt(rangeAndStep[2]).err # "nil"
    THEN RangeErr(MustParseInt(rangeAndStep[2]).err)
    ELSE GetBits(start, IF singleDigit THEN r.max ELSE end,
                 MustParseInt(rangeAndStep[2]).val, isStar, r)

\* The high end of getRange for an expression that is no star and whose
\* low end parsed as low.
RangeEnd(rangeAndStep, lowAndHigh, low, high, r) ==
    IF low.err # "nil" THEN RangeErr(low.err)
    ELSE IF Len(lowAndHigh) > 2 THEN RangeErr("too many hyphens")
    ELSE IF Len(lowAndHigh) = 2 /\ high.err # "nil" THEN RangeErr(high.err)
    ELSE RangeStep(rangeAndStep, Len(lowAndHigh) = 1, FALSE, low.val,
                   IF Len(lowAndHigh) = 2 THEN high.val ELSE low.val, r)

\* The start of getRange, on the pieces around "/" and around "-": a star
\* runs from the least value to the greatest, any other expression from
\* the number or name before the "-" to the one after it.
RangeStart(rangeAndStep, lowAndHigh, r) ==
    IF lowAndHigh[1] \in {<<"*">>, <<"?">>}
    THEN RangeStep(rangeAndStep, Len(lowAndHigh) = 1, TRUE, r.min, r.max, r)
    ELSE RangeEnd(rangeAndStep, lowAndHigh,
                  ParseIntOrName(lowAndHigh[1], r),
                  IF Len(lowAndHigh) >= 2
                  THEN ParseIntOrName(lowAndHigh[2], r) ELSE IntOk(0),
                  r)

\* getRange of cron on one expression of a field: number, "*" or "?",
\* range lo-hi, each with an optional /step.
GetRange(expr, r) ==
    RangeStart(Split(expr, "/"), Split(Split(expr, "/")[1], "-"), r)

\* The union of the parsed expressions of a field, or the first error.
FieldBits(parsed) ==
    IF \E i \in DOMAIN parsed : parsed[i].err # "nil"
    THEN parsed[CHOOSE i \in DOMAIN parsed :
                    /\ parsed[i].err # "nil"
                    /\ \A j \in 1..(i - 1) : parsed[j].err = "nil"]
    ELSE [err  |-> "nil",
          bits |-> UNION {parsed[i].bits : i \in DOMAIN parsed},
          star |-> \E i \in DOMAIN parsed : parsed[i].star]

\* The parsed expressions of a field, in order.
FieldRanges(ranges, r) ==
    FieldBits([i \in DOMAIN ranges |-> GetRange(ranges[i], r)])

\* getField of cron: the union of the comma-separated expressions.
GetField(field, r) == FieldRanges(FieldsFunc(field, {","}), r)

\* ConstantDelaySchedule of n seconds.
ConstantDelay(n) ==
    [kind |-> "every", n |-> n, second |-> {}, minute |-> {}, hour |-> {},
     dom |-> {}, month |-> {}, dow |-> {}, domStar |-> FALSE,
     dowStar |-> FALSE, loc |-> 0]

\* SpecSchedule: the values of each field, the star bits of the two day
\* fields, and the location as its offset from UTC in seconds.
SpecSchedule(second, minute, hour, dom, month, dow, domStar, dowStar, loc) ==
    [kind |-> "spec", n |-> 0, second |-> second, minute |-> minute,
     hour |-> hour, dom |-> dom, month |-> month, dow |-> dow,
     domStar |-> domStar, dowStar |-> dowStar, loc |-> loc]

All(r) == r.min..r.max

\* What the parser returns: a schedule or an error.
ParseError(msg) == [ok |-> FALSE, err |-> msg, sched |-> ConstantDelay(0)]
Parsed(sched) == [ok |-> TRUE, err |-> "nil", sched |-> sched]

\* The parser does not return: it slices the spec out of its bounds.
ParsePanic == ParseError("panic: slice bounds out of range")

(***************************************************************************)
(* Numbers in binary, for the uint64 and float64 arithmetic of             *)
(* time.ParseDuration: a number is the sequence of its bits, the lowest    *)
(* first, without zeros at the high end.                                   *)
(***************************************************************************)
\* The bit of b at position i, 0 above its high end.
Bit(b, i) == IF i \in DOMAIN b THEN b[i] ELSE 0

\* b without the zeros at its high end.
TrimBits(b) ==
    IF \A i \in DOMAIN b : b[i] = 0 THEN <<>>
    ELSE SubSeq(b, 1, CHOOSE i \in DOMAIN b :
                          b[i] = 1 /\ \A j \in (i + 1)..Len(b) : b[j] = 0)

\* The bits of a number of the model.
RECURSIVE IntBits(_)
IntBits(n) == IF n = 0 THEN <<>> ELSE <<n % 2>> \o IntBits(n \div 2)

\* a <= b.
LeqBits(a, b) ==
    \/ Len(a) < Len(b)
    \/ /\ Len(a) = Len(b)
       /\ \A i \in DOMAIN a :
              a[i] > b[i] => \E j \in (i + 1)..Len(a) : a[j] < b[j]

\* The value of b, FarFuture when it is that or more.
RECURSIVE BitsSat(_)
BitsSat(b) ==
    IF b = <<>> THEN 0
    ELSE IF ~LeqBits(b, IntBits(FarFuture)) THEN FarFuture
    ELSE 2 * BitsSat(Tail(b)) + Head(b)

\* The carry into position i of a + b: a position below i makes one, and
\* every position between passes it on.
Carry(a, b, i) ==
    IF \E j \in 1..(i - 1) :
           /\ Bit(a, j) + Bit(b, j) = 2
           /\ \A k \in (j + 1)..(i - 1) : Bit(a, k) + Bit(b, k) >= 1
    THEN 1 ELSE 0

\* a + b.
AddBits(a, b) ==
    TrimBits([i \in 1..((IF Len(a) > Len(b) THEN Len(a) ELSE Len(b)) + 1) |->
                  (Bit(a, i) + Bit(b, i) + Carry(a, b, i)) % 2])

\* a - b, for a >= b: a plus the complement of b plus 1, without the bit
\* above those of a.
SubBits(a, b) ==
    TrimBits(SubSeq(AddBits(AddBits(a, [i \in DOMAIN a |-> 1 - Bit(b, i)]),
                            <<1>>),
                    1, Len(a)))

\* b << n.
ShiftLeft(b, n) == IF b = <<>> THEN <<>> ELSE [i \in 1..n |-> 0] \o b

\* a * b: a times the low half of b, and a times the high half of b.
RECURSIVE MulBits(_, _)
MulBits(a, b) ==
    IF a = <<>> \/ b = <<>> THEN <<>>
    ELSE IF Len(b) = 1 THEN a
    ELSE AddBits(MulBits(a, TrimBits(SubSeq(b, 1, Len(b) \div 2))),
                 ShiftLeft(MulBits(a, SubSeq(b, Len(b) \div 2 + 1, Len(b))),
                           Len(b) \div 2))

\* The long division takes DigitWidth bits of the dividend at a step.
DigitWidth == 4

\* The remainder r of the bits of a above position i takes in the
\* DigitWidth bits of a up to i.
TakeBits(a, i, r) ==
    TrimBits([j \in 1..DigitWidth |-> Bit(a, i - DigitWidth + j)] \o r)

\* The digit of the quotient for the remainder r < b * 2^DigitWidth: the
\* greatest c with b * c <= r.
QuotientDigit(r, b) ==
    CHOOSE c \in 0..(2 ^ DigitWidth - 1) :
        /\ LeqBits(MulBits(b, IntBits(c)), r)
        /\ ~LeqBits(MulBits(b, IntBits(c + 1)), r)

\* The DigitWidth bits of a digit c of the quotient.
DigitOf(c) == [j \in 1..DigitWidth |-> Bit(IntBits(c), j)]

\* The long division of a by b from position i of a down, i a multiple of
\* DigitWidth: q and r are the quotient and the remainder of the bits of a
\* above i.
RECURSIVE DivLoop(_, _, _, _, _)

\* The step at position i > 0 with the digit c of the quotient: r holds
\* the bits of the step.
DivStep(a, i, q, r, c, b) ==
    IF c = 0 THEN DivLoop(a, i - DigitWidth, DigitOf(c) \o q, r, b)
    ELSE DivLoop(a, i - DigitWidth, DigitOf(c) \o q,
                 SubBits(r, MulBits(b, IntBits(c))), b)

DivLoop(a, i, q, r, b) ==
    IF i = 0 THEN [q |-> TrimBits(q), r |-> r]
    ELSE DivStep(a, i, q, TakeBits(a, i, r),
                 QuotientDigit(TakeBits(a, i, r), b), b)

\* The quotient q and the remainder r of a divided by b, for b > 0.
DivMod(a, b) ==
    DivLoop(a, DigitWidth * ((Len(a) + DigitWidth - 1) \div DigitWidth),
            <<>>, <<>>, b)

\* The bits of the number that decimal digits spell.
RECURSIVE DigitBits(_)
DigitBits(d) ==
    IF d = <<>> THEN <<>>
    ELSE AddBits(MulBits(DigitBits(SubSeq(d, 1, Len(d) - 1)), IntBits(10)),
                 IntBits(DigitVal(d[Len(d)])))

\* The low 64 bits of b: what a uint64 keeps of it.
Uint64(b) == TrimBits(IF Len(b) > 64 THEN SubSeq(b, 1, 64) ELSE b)

(***************************************************************************)
(* float64: a number m * 2^e above 0, with m of MantissaBits bits at most, *)
(* or one more when m is 1 << MantissaBits.  Every operation rounds its    *)
(* exact result to the nearest such number, a tie to the one whose m is    *)
(* even.  The numbers ParseDuration computes with are inside the range of  *)
(* the normal float64.                                                     *)
(***************************************************************************)
MantissaBits == 53

\* The number of bits at the low end of m that a float64 drops.
Dropped(m) == IF Len(m) > MantissaBits THEN Len(m) - MantissaBits ELSE 0

\* The float64 nearest to m * 2^e, or to a number just above it when
\* inexact says so: it is the one above when the bits dropped from m, and
\* what was lost below them, are above one half, or are one half with the
\* kept bits odd.
Float64(m, e, inexact) ==
    [m |-> IF /\ Dropped(m) > 0
              /\ m[Dropped(m)] = 1
              /\ \/ inexact
                 \/ m[Dropped(m) + 1] = 1
                 \/ \E i \in 1..(Dropped(m) - 1) : m[i] = 1
           THEN AddBits(SubSeq(m, Dropped(m) + 1, Len(m)), <<1>>)
           ELSE SubSeq(m, Dropped(m) + 1, Len(m)),
     e |-> e + Dropped(m)]

\* The float64 product x * y.
FloatMul(x, y) == Float64(MulBits(x.m, y.m), x.e + y.e, FALSE)

\* The float64 quotient x / y: x.m shifted by 2 * MantissaBits + 3 bits
\* gives a quotient of more bits than a float64 keeps, so that the
\* rounding sees the half and what is below it.
FloatDiv(x, y) ==
    Float64(DivMod(ShiftLeft(x.m, 2 * MantissaBits + 3), y.m).q,
            x.e - y.e - (2 * MantissaBits + 3),
            DivMod(ShiftLeft(x.m, 2 * MantissaBits + 3), y.m).r # <<>>)

\* uint64(x): the whole part of x.
Truncate(x) ==
    IF x.e >= 0 THEN ShiftLeft(x.m, x.e)
    ELSE IF -x.e >= Len(x.m) THEN <<>>
    ELSE SubSeq(x.m, 1 - x.e, Len(x.m))

(***************************************************************************)
(* time.ParseDuration, reached from "@every <duration>".  A duration is    *)
(* kept as the bits of its nanoseconds.                                    *)
(***************************************************************************)
\* unitMap of package time: the nanoseconds of each unit.  The two
\* spellings of the microsecond with a Greek letter are outside the
\* characters of the model.
Units ==
    <<[name |-> <<"n", "s">>, nanos |-> <<"1">>],
      [name |-> <<"u", "s">>, nanos |-> <<"1", "0", "0", "0">>],
      [name |-> <<"m", "s">>, nanos |-> <<"1", "0", "0", "0", "0", "0", "0">>],
      [name |-> <<"s">>, nanos |-> <<"1", "0", "0", "0", "0", "0", "0", "0",
                                     "0", "0">>],
      [name |-> <<"m">>, nanos |-> <<"6", "0", "0", "0", "0", "0", "0", "0",
                                     "0", "0", "0">>],
      [name |-> <<"h">>, nanos |-> <<"3", "6", "0", "0", "0", "0", "0", "0",
                                     "0", "0", "0", "0", "0">>]>>

\* The position of the unit of that name in Units, 0 when there is none.
UnitIndex(name) ==
    IF \E i \in DOMAIN Units : Units[i].name = name
    THEN CHOOSE i \in DOMAIN Units : Units[i].name = name
    ELSE 0

\* The number of characters s begins with that are neither "." nor a digit.
UnitRun(s) ==
    IF \A i \in DOMAIN s : s[i] # "." /\ ~IsDigit(s[i]) THEN Len(s)
    ELSE (CHOOSE i \in DOMAIN s :
              /\ (s[i] = "." \/ IsDigit(s[i]))
              /\ \A j \in 1..(i - 1) : s[j] # "." /\ ~IsDigit(s[j])) - 1

\* One digit of leadingFraction of package time, y being the number with
\* the digit: a digit with which the number would pass 1 << 63 overflows,
\* and any other multiplies the scale by 10, in float64.
FractionDigit(frac, y) ==
    IF ~LeqBits(y, ShiftLeft(<<1>>, 63)) THEN [frac EXCEPT !.overflow = TRUE]
    ELSE [x |-> y,
          scale |-> FloatMul(frac.scale, Float64(IntBits(10), 0, FALSE)),
          overflow |-> FALSE]

\* leadingFraction on the digits s after the ".", with the number x of the
\* digits read, the scale and whether a digit has overflowed: every digit
\* after one that overflowed is left out.
RECURSIVE LeadingFraction(_, _)
LeadingFraction(s, frac) ==
    IF s = <<>> \/ frac.overflow THEN frac
    ELSE LeadingFraction(
             Tail(s),
             FractionDigit(frac, AddBits(MulBits(frac.x, IntBits(10)),
                                         IntBits(DigitVal(Head(s))))))

\* The nanoseconds the fraction frac adds, nothing when its number is 0:
\* uint64(float64(f) * (float64(unit) / scale)).
FractionNanos(frac, unit) ==
    IF frac.x = <<>> THEN <<>>
    ELSE Truncate(FloatMul(Float64(frac.x, 0, FALSE),
                           FloatDiv(Float64(unit, 0, FALSE), frac.scale)))

\* What ParseDuration returns: the bits of the nanoseconds, or an error.
DurationOk(nanos) == [err |-> "nil", nanos |-> nanos]
DurationErr(msg) == [err |-> msg, nanos |-> <<>>]

\* The loop of ParseDuration over the terms of s, each a number, an
\* optional fraction and a unit, with the sum d so far.
RECURSIVE DurationTerms(_, _)

\* v, the whole number of the term times the unit, takes in the
\* nanoseconds of the fraction and must not pass 1 << 63; then d += v, in
\* uint64: a sum of 1 << 64 wraps to 0, and one above 1 << 63 is an error.
AddFraction(v, nanos, rest, d) ==
    IF \/ ~LeqBits(AddBits(v, nanos), ShiftLeft(<<1>>, 63))
       \/ ~LeqBits(Uint64(AddBits(d, AddBits(v, nanos))), ShiftLeft(<<1>>, 63))
    THEN DurationErr("invalid duration")
    ELSE DurationTerms(rest, Uint64(AddBits(d, AddBits(v, nanos))))

\* The term of whole number v, fraction frac and the unit is added to the
\* sum: v times the unit must not pass 1 << 63.
AddTerm(v, frac, unit, rest, d) ==
    IF ~LeqBits(MulBits(v, unit), ShiftLeft(<<1>>, 63))
    THEN DurationErr("invalid duration")
    ELSE AddFraction(MulBits(v, unit), FractionNanos(frac, unit), rest, d)

\* The unit of the term is read from s; v are the digits before the "."
\* and f those after it.
TermUnit(v, f, s, d) ==
    IF v = <<>> /\ f = <<>> THEN DurationErr("invalid duration")
    ELSE IF UnitRun(s) = 0 THEN DurationErr("missing unit in duration")
    ELSE IF UnitIndex(SubSeq(s, 1, UnitRun(s))) = 0
    THEN DurationErr("unknown unit in duration")
    ELSE AddTerm(DigitBits(StripZeros(v)),
                 LeadingFraction(f, [x |-> <<>>,
                                     scale |-> Float64(<<1>>, 0, FALSE),
                                     overflow |-> FALSE]),
                 DigitBits(Units[UnitIndex(SubSeq(s, 1, UnitRun(s)))].nanos),
                 SubSeq(s, UnitRun(s) + 1, Len(s)), d)

\* The fraction of the term whose whole number is spelled v is read from
\* s.  leadingInt fails on a number above 1 << 63.
TermFraction(v, s, d) ==
    IF ~DigitsLeq(StripZeros(v), Two63) THEN DurationErr("invalid duration")
    ELSE IF s # <<>> /\ s[1] = "."
    THEN TermUnit(v, SubSeq(s, 2, 1 + DigitRun(Tail(s))),
                  SubSeq(s, 2 + DigitRun(Tail(s)), Len(s)), d)
    ELSE TermUnit(v, <<>>, s, d)

DurationTerms(s, d) ==
    IF s = <<>> THEN DurationOk(d)
    ELSE IF s[1] # "." /\ ~IsDigit(s[1]) THEN DurationErr("invalid duration")
    ELSE TermFraction(SubSeq(s, 1, DigitRun(s)),
                      SubSeq(s, DigitRun(s) + 1, Len(s)), d)

\* The end of ParseDuration: a duration that is not negative must be an
\* int64, below 1 << 63.
DurationEnd(d, negative) ==
    IF d.err # "nil" THEN d
    ELSE IF ~negative /\ d.nanos = ShiftLeft(<<1>>, 63)
    THEN DurationErr("invalid duration")
    ELSE d

\* time.ParseDuration(s), without the sign of the duration.
ParseDuration(s) ==
    IF Unsigned(s) = <<"0">> THEN DurationOk(<<>>)
    ELSE IF Unsigned(s) = <<>> THEN DurationErr("invalid duration")
    ELSE DurationEnd(DurationTerms(Unsigned(s), <<>>), IsNegative(s))

\* cron.Every(duration): a duration below one second, a negative one
\* among them, becomes one second, and any other is cut to whole seconds.
Every(nanos, negative) ==
    IF negative \/ DivMod(nanos, DigitBits(Units[4].nanos)).q = <<>>
    THEN ConstantDelay(1)
    ELSE ConstantDelay(BitsSat(DivMod(nanos, DigitBits(Units[4].nanos)).q))

\* The duration of "@every <duration>" and its schedule.
ParseEvery(s, d) ==
    IF d.err # "nil" THEN ParseError("failed to parse duration")
    ELSE Parsed(Every(d.nanos, IsNegative(s)))

\* parseDescriptor of cron: the spec is one of the named schedules, or
\* "@every " and a duration.
ParseDescriptor(spec, loc) ==
    IF spec \in {<<"@", "y", "e", "a", "r", "l", "y">>, <<"@", "a", "n",
                                                          "n", "u", "a",
                                                          "l", "l", "y">>}
    THEN Parsed(SpecSchedule({0}, {0}, {0}, {1}, {1}, All(Dow),
                             FALSE, TRUE, loc))
    ELSE IF spec = <<"@", "m", "o", "n", "t", "h", "l", "y">>
    THEN Parsed(SpecSchedule({0}, {0}, {0}, {1}, All(Months), All(Dow),
                             FALSE, TRUE, loc))
    ELSE IF spec = <<"@", "w", "e", "e", "k", "l", "y">>
    THEN Parsed(SpecSchedule({0}, {0}, {0}, All(Dom), All(Months), {0},
                             TRUE, FALSE, loc))
    ELSE IF spec \in {<<"@", "d", "a", "i", "l", "y">>, <<"@", "m", "i",
                                                          "d", "n", "i",
                                                          "g", "h", "t">>}
    THEN Parsed(SpecSchedule({0}, {0}, {0}, All(Dom), All(Months), All(Dow),
                             TRUE, TRUE, loc))
    ELSE IF spec = <<"@", "h", "o", "u", "r", "l", "y">>
    THEN Parsed(SpecSchedule({0}, {0}, All(Hours), All(Dom), All(Months),
                             All(Dow), TRUE, TRUE, loc))
    ELSE IF HasPrefix(spec, <<"@", "e", "v", "e", "r", "y", " ">>)
    THEN ParseEvery(SubSeq(spec, 8, Len(spec)),
                    ParseDuration(SubSeq(spec, 8, Len(spec))))
    ELSE ParseError("unrecognized descriptor")

\* The schedule of five parsed fields, or the error of the first field
\* that did not parse.  The standard parser has no field of seconds: a
\* schedule fires at second 0.
SpecOfFields(minute, hour, dom, month, dow, loc) ==
    IF minute.err # "nil" THEN ParseError(minute.err)
    ELSE IF hour.err # "nil" THEN ParseError(hour.err)
    ELSE IF dom.err # "nil" THEN ParseError(dom.err)
    ELSE IF month.err # "nil" THEN ParseError(month.err)
    ELSE IF dow.err # "nil" THEN ParseError(dow.err)
    ELSE Parsed(SpecSchedule({0}, minute.bits, hour.bits, dom.bits,
                             month.bits, dow.bits, dom.star, dow.star, loc))

\* normalizeFields and the fields of Parser.Parse: minute, hour, day of
\* month, month and day of week.
ParseFields(fields, loc) ==
    IF Len(fields) # 5
    THEN ParseError("expected exactly 5 fields")
    ELSE SpecOfFields(GetField(fields[1], Minutes),
                      GetField(fields[2], Hours),
                      GetField(fields[3], Dom),
                      GetField(fields[4], Months),
                      GetField(fields[5], Dow),
                      loc)

\* The time-zone database of the machine: the zones it holds, each with
\* its offset from UTC in seconds.  Both have no daylight saving time.
Zones ==
    <<[name |-> <<"A", "s", "i", "a", "/", "T", "o", "k", "y", "o">>, offset |-> 32400],
      [name |-> <<"A", "m", "e", "r", "i", "c", "a", "/", "P", "h", "o",
                  "e", "n", "i", "x">>, offset |-> -25200]>>

\* The position of the zone of that name in Zones, 0 when there is none.
ZoneIndex(name) ==
    IF \E i \in DOMAIN Zones : Zones[i].name = name
    THEN CHOOSE i \in DOMAIN Zones : Zones[i].name = name
    ELSE 0

\* time.LoadLocation(name): "" and "UTC" are UTC, "Local" is the zone of
\* the process, any other name is looked up in the database.
LoadLocation(name) ==
    IF name \in {<<>>, <<"U", "T", "C">>, <<"L", "o", "c", "a", "l">>} THEN [ok |-> TRUE, offset |-> 0]
    ELSE IF ZoneIndex(name) = 0 THEN [ok |-> FALSE, offset |-> 0]
    ELSE [ok |-> TRUE, offset |-> Zones[ZoneIndex(name)].offset]

\* Parser.Parse after the time zone: a spec that begins with "@" is a
\* descriptor, any other is split into its fields.
ParseIn(spec, loc) ==
    IF HasPrefix(spec, <<"@">>) THEN ParseDescriptor(spec, loc)
    ELSE ParseFields(Fields(spec), loc)

\* Parser.Parse for a spec that begins with "TZ=" or "CRON_TZ=": the name
\* of the zone runs from the "=" to the first space, and the spec begins
\* after it.  Without a space the slice of the name is out of bounds.
ParseZoned(spec, eq, space) ==
    IF space = 0 THEN ParsePanic
    ELSE IF ~LoadLocation(SubSeq(spec, eq + 1, space - 1)).ok
    THEN ParseError("provided bad location")
    ELSE ParseIn(TrimSpace(SubSeq(spec, space, Len(spec))),
                 LoadLocation(SubSeq(spec, eq + 1, space - 1)).offset)

\* cron's standard parser on the captured spec (AddFunc, line 82): the
\* schedule, or an error.
ParseStandard(spec) ==
    IF spec = <<>> THEN ParseError("empty spec string")
    ELSE IF HasPrefix(spec, <<"T", "Z", "=">>) \/ HasPrefix(spec, <<"C",
                                                                    "R",
                                                                    "O",
                                                                    "N",
                                                                    "_",
                                                                    "T",
                                                                    "Z", "=">>)
    THEN ParseZoned(spec, IndexOf(spec, "="), IndexOf(spec, " "))
    ELSE ParseIn(spec, 0)

(***************************************************************************)
(* The calendar, and Schedule.Next.                                        *)
(***************************************************************************)
\* The year of second 0.
EpochYear == 2023

\* The leap years before year y.
LeapsBefore(y) == (y - 1) \div 4 - (y - 1) \div 100 + (y - 1) \div 400

\* The days from the first day of EpochYear to the first day of year y.
DaysBefore(y) ==
    365 * (y - EpochYear) + LeapsBefore(y) - LeapsBefore(EpochYear)

\* The year of the day that is `day` days after the first.
YearOf(day) ==
    CHOOSE y \in (EpochYear + day \div 366 - 1)..(EpochYear + day \div 365 + 1) :
        DaysBefore(y) <= day /\ day < DaysBefore(y + 1)

\* The day of the year (from 0) on which each month of year y begins.
MonthStarts(y) ==
    IF y % 4 = 0 /\ (y % 100 # 0 \/ y % 400 = 0)
    THEN <<0, 31, 60, 91, 121, 152, 182, 213, 244, 274, 305, 335>>
    ELSE <<0, 31, 59, 90, 120, 151, 181, 212, 243, 273, 304, 334>>

\* The month of the day of the year doy, for months that begin at starts.
MonthOf(starts, doy) ==
    CHOOSE m \in 1..12 :
        starts[m] <= doy /\ (m = 12 \/ doy < starts[m + 1])

\* The month and the day of the month of day doy of year y.
DateInYear(y, doy) ==
    [month |-> MonthOf(MonthStarts(y), doy),
     day   |-> doy - MonthStarts(y)[MonthOf(MonthStarts(y), doy)] + 1]

\* The month and the day of the month of a day.
DateOf(day) == DateInYear(YearOf(day), day - DaysBefore(YearOf(day)))

\* The month check of SpecSchedule.Next and dayMatches of cron on a date
\* and its day of the week: the day matches by both day fields when one
\* of them is a star, by either of them otherwise.
DateMatches(sched, date, weekday) ==
    /\ date.month \in sched.month
    /\ IF sched.domStar \/ sched.dowStar
       THEN date.day \in sched.dom /\ weekday \in sched.dow
       ELSE date.day \in sched.dom \/ weekday \in sched.dow

\* The day that is `day` days after the first (a Sunday) matches.
DayMatches(sched, day) == DateMatches(sched, DateOf(day), day % 7)

\* Second s of a day (0..86399) has a second, a minute and an hour of the
\* schedule.
TimeMatches(sched, s) ==
    /\ (s % 60) \in sched.second
    /\ ((s \div 60) % 60) \in sched.minute
    /\ (s \div 3600) \in sched.hour

\* Instant u of the schedule's zone matches the spec schedule.
Matches(sched, u) ==
    TimeMatches(sched, u % 86400) /\ DayMatches(sched, u \div 86400)

\* The schedule has a time of day from second lo of the day on.
HasTime(sched, lo) ==
    \E h \in sched.hour : \E m \in sched.minute : \E s \in sched.second :
        h * 3600 + m * 60 + s >= lo

\* The first second of a day, from second lo on, that the schedule matches.
FirstTime(sched, lo) ==
    CHOOSE s \in lo..86399 :
        /\ TimeMatches(sched, s)
        /\ \A k \in lo..(s - 1) : ~TimeMatches(sched, k)

\* The first day after day, up to day last, that the schedule matches.
FirstDay(sched, day, last) ==
    CHOOSE d \in (day + 1)..last :
        /\ DayMatches(sched, d)
        /\ \A k \in (day + 1)..(d - 1) : ~DayMatches(sched, k)

\* The first instant from u on, an instant of day `day` of the schedule's
\* zone, that matches the spec schedule and is of a year up to limit; the
\* zero time when there is none.
FirstFrom(sched, u, day, limit) ==
    IF DayMatches(sched, day) /\ HasTime(sched, u % 86400)
    THEN day * 86400 + FirstTime(sched, u % 86400) - sched.loc
    ELSE IF /\ HasTime(sched, 0)
            /\ \E d \in (day + 1)..(DaysBefore(limit + 1) - 1) :
                   DayMatches(sched, d)
    THEN FirstDay(sched, day, DaysBefore(limit + 1) - 1) * 86400
             + FirstTime(sched, 0) - sched.loc
    ELSE Zero

\* The first instant from t on that matches the spec schedule in its
\* zone: SpecSchedule.Next gives up after the fifth year after that of t.
FirstMatch(sched, t) ==
    FirstFrom(sched, t + sched.loc, (t + sched.loc) \div 86400,
              YearOf((t + sched.loc) \div 86400) + 5)

\* t + n, FarFuture when it is that or more.
AddDelay(t, n) == IF n >= FarFuture - t THEN FarFuture ELSE t + n

\* A Next that may answer the very instant it is asked about.
ScheduleNext_NotStrict(sched, t) ==
    IF sched.kind = "every" THEN AddDelay(t, sched.n - 1)
    ELSE FirstMatch(sched, t)

\* Schedule.Next(t): the next activation strictly after t.  A constant
\* delay adds the delay; a spec schedule is the next matching second.
ScheduleNext(sched, t) ==
    IF sched.kind = "every" THEN AddDelay(t, sched.n)
    ELSE FirstMatch(sched, t + 1)

(***************************************************************************)
(* The embedded Cron's entries.                                            *)
(***************************************************************************)
\* byTime.Less of cron: zero times sort to the end.
ByTimeLess(a, b) ==
    IF a.next = Zero THEN FALSE
    ELSE IF b.next = Zero THEN TRUE
    ELSE a.next < b.next

RECURSIVE InsertByTime(_, _)
InsertByTime(e, s) ==
    IF s = <<>> THEN <<e>>
    ELSE IF ByTimeLess(e, Head(s)) THEN <<e>> \o s
    ELSE <<Head(s)>> \o InsertByTime(e, Tail(s))

\* sort.Sort(byTime(c.entries)) at the top of the run loop, as an
\* insertion sort that keeps entries of equal time in their order.
RECURSIVE SortByTime(_)
SortByTime(s) ==
    IF s = <<>> THEN <<>>
    ELSE InsertByTime(s[Len(s)], SortByTime(SubSeq(s, 1, Len(s) - 1)))

\* A new entry of the Cron (Cron.Schedule, reached from AddFunc), with the
\* id the Cron gives it: while the Cron is not running it is appended
\* unscheduled; while it runs the loop takes it from c.add, schedules it
\* from the current time and sorts.  fn is the function the entry runs:
\* "runFunc" for the closure of ReadFiles, with the jobName and content it
\* captured, "func" for a function of the caller's.
AddEntry(ents, id, isRunning, t, fn, name, content, sched) ==
    LET e == [id |-> id, fn |-> fn, name |-> name, content |-> content,
              sched |-> sched, prev |-> Zero,
              next |-> IF isRunning THEN ScheduleNext(sched, t) ELSE Zero]
    IN  IF isRunning THEN SortByTime(Append(ents, e)) ELSE Append(ents, e)

\* The sleep of the run loop when it has no entry to wait for
\* (100000 * time.Hour), in seconds.
IdleSleep == 360000000

\* time.NewTimer at the top of the run loop.  The loop, whose `now` holds
\* loopNow, has sorted the entries and at clock time t arms its timer for
\* the earliest of them: it expires entries[0].Next.Sub(now) after t, at
\* once when that is no time or less, and after the idle sleep when there
\* is no entry to wait for.  The instant at which the timer expires is
\* the value the loop receives from timer.C, however late it receives it.
\* A loop that took an entry from c.add or an id from c.remove has stopped
\* its timer and read the clock into `now`: loopNow is t.
NewTimer(ents, loopNow, t) ==
    IF ents = <<>> \/ ents[1].next = Zero THEN AddDelay(t, IdleSleep)
    ELSE IF ents[1].next <= loopNow THEN t
    ELSE AddDelay(t, ents[1].next - loopNow)

(***************************************************************************)
(* ReadFiles                                                               *)
(***************************************************************************)
\* An error value: its message and, when the message begins with
\* "File <path>:", the file of that path.
Nil == [msg |-> "nil", file |-> <<>>]

\* ioutil.ReadDir(dirname) (line 53): the files sorted by file name, or an
\* error.
ReadDir(dirname) ==
    IF dirname = "jobs" THEN [err |-> Nil, files |-> <<FileA, FileB>>]
    ELSE IF dirname = "broken"
         THEN [err |-> Nil, files |-> <<FileA, FileBadSpec, FileB>>]
    ELSE IF dirname = "unmarked"
         THEN [err |-> Nil,
               files |-> <<FileA, FileATxt, FileNoMarker, FileB>>]
    ELSE IF dirname = "nested"
         THEN [err |-> Nil, files |-> <<FileSubdir, FileB>>]
    ELSE [err |-> [msg |-> "no such directory", file |-> <<>>],
          files |-> <<>>]

\* The directories ReadFiles is called with.
DirNames == {"jobs", "broken", "unmarked", "nested", "missing"}

\* The files of the directories that can be listed.
AllFiles ==
    UNION {{ReadDir(d).files[k] : k \in DOMAIN ReadDir(d).files} :
              d \in DirNames}

\* ioutil.ReadFile(fPath) (line 59): the data of the file, or an error.
ReadFile(f) ==
    IF f.readable THEN [err |-> Nil, data |-> f.data]
    ELSE [err |-> [msg |-> "read: is a directory", file |-> <<>>],
          data |-> <<>>]

\* cronRE.FindStringSubmatch(content) (line 65) for every file there is:
\* the match depends on the file alone and is computed once.
Submatch == [f \in AllFiles |-> FindStringSubmatch(ReadFile(f).data)]

\* What AddFunc's parser makes of the spec of every file that has one
\* (spec := match[1], line 70), computed once.
Schedules ==
    [f \in {g \in AllFiles : Len(Submatch[g]) >= 2} |->
        ParseStandard(Submatch[f][2])]

\* The error with which the loop of ReadFiles returns at a file, Nil when
\* it registers the file.
FileError(f) ==
    IF ReadFile(f).err # Nil THEN ReadFile(f).err
    ELSE IF Len(Submatch[f]) < 2
         THEN [msg |-> "Cron spec was not found", file |-> f.name]
    ELSE IF ~Schedules[f].ok
         THEN [msg |-> Schedules[f].err, file |-> f.name]
    ELSE Nil

\* The parser panics on the spec of file f.
ParserPanics(f) ==
    /\ ReadFile(f).err = Nil
    /\ Len(Submatch[f]) >= 2
    /\ Schedules[f] = ParsePanic

\* ReadFiles has returned: no call is in its loop.
Returned(dirname) == [dir |-> dirname, i |-> 0]

\* A loop that leaves out the file that fails and reports no error.
ReadLoop_SwallowsErr(dirname, i) ==
    LET files == ReadDir(dirname).files
        f     == files[i]
    IN  /\ IF FileError(f) # Nil
           THEN UNCHANGED <<entries, nextID, timer>>
           ELSE /\ entries' = AddEntry(entries, nextID + 1, running, now,
                                       "runFunc", JobName(f.name),
                                       ReadFile(f).data, Schedules[f].sched)
                /\ nextID' = nextID + 1
                /\ timer' = IF running THEN NewTimer(entries', now, now) ELSE timer
        /\ IF i = Len(files)
           THEN readErr' = Nil /\ reading' = Returned(dirname)
           ELSE readErr' = readErr /\ reading' = [dir |-> dirname, i |-> i + 1]
        /\ panicked' = panicked

\* One turn of the loop of ReadFiles (lines 57-85), at file i of the
\* directory: the file is read, its spec is looked for, and the job is
\* handed to AddFunc.  The first file that cannot be read, has no marker or
\* has a spec AddFunc rejects makes ReadFiles return the error; the entries
\* added before it stay.  After the last file ReadFiles returns nil.  A
\* spec on which the parser panics ends the process.
ReadLoop(dirname, i) ==
    LET files == ReadDir(dirname).files
        f     == files[i]
    IN  IF ParserPanics(f)
        THEN /\ panicked' = ParsePanic.err
             /\ UNCHANGED <<entries, nextID, timer, readErr, reading>>
        ELSE IF FileError(f) # Nil
        THEN /\ readErr' = FileError(f)
             /\ reading' = Returned(dirname)
             /\ UNCHANGED <<entries, nextID, timer, panicked>>
        ELSE /\ entries' = AddEntry(entries, nextID + 1, running, now,
                                    "runFunc", JobName(f.name),
                                    ReadFile(f).data, Schedules[f].sched)
             /\ nextID' = nextID + 1
             /\ timer' = IF running THEN NewTimer(entries', now, now) ELSE timer
             /\ panicked' = panicked
             /\ IF i = Len(files)
                THEN readErr' = Nil /\ reading' = Returned(dirname)
                ELSE readErr' = readErr
                     /\ reading' = [dir |-> dirname, i |-> i + 1]

\* ReadFiles is called (lines 50-88): the directory is listed and the loop
\* takes its first turn.  ReadFiles is called from one goroutine: a call
\* begins when the one before it has returned.
ReadFiles(dirname, reads) ==
    /\ panicked = "none"
    /\ reading.i = 0
    /\ nreads < reads
    /\ nreads' = nreads + 1
    /\ IF ReadDir(dirname).err # Nil
       THEN /\ readErr' = ReadDir(dirname).err
            /\ reading' = Returned(dirname)
            /\ UNCHANGED <<entries, nextID, timer, panicked>>
       ELSE IF ReadDir(dirname).files = <<>>
       THEN /\ readErr' = Nil
            /\ reading' = Returned(dirname)
            /\ UNCHANGED <<entries, nextID, timer, panicked>>
       ELSE ReadLoop(dirname, 1)
    /\ UNCHANGED <<now, running, runs, sendq, closed, execs, loggers,
                   printing, stdout, call, lifecycle, nfired, nstarts,
                   nstops, ndirect>>

\* The loop of a ReadFiles in progress takes its next turn.  Between two
\* turns the other goroutines run: the clock moves on, the loop fires the
\* entries registered so far, Start and Stop are called.
ReadNext ==
    /\ panicked = "none"
    /\ reading.i > 0
    /\ ReadLoop(reading.dir, reading.i)
    /\ UNCHANGED <<now, running, runs, sendq, closed, execs, loggers,
                   printing, stdout, call, lifecycle, nfired, nstarts,
                   nstops, ndirect, nreads>>

(***************************************************************************)
(* Start and Stop                                                          *)
(***************************************************************************)
\* Cron.Start (line 93): nothing when already running; else the run loop
\* starts, reads the clock into its `now`, schedules every entry from it,
\* sorts them and arms its timer.
CronStart ==
    IF running
    THEN UNCHANGED <<running, entries, timer>>
    ELSE /\ running' = TRUE
         /\ entries' = SortByTime(
                [i \in 1..Len(entries) |->
                    [entries[i] EXCEPT
                        !.next = ScheduleNext(entries[i].sched, now)]])
         /\ timer' = NewTimer(entries', now, now)

\* The calls of Start, of Stop and of the Cron's own methods so far.
Calls == nstarts + nstops + ndirect

\* Start is called (line 92): a Logger goroutine is spawned, on every
\* call.  Start and Stop are called from one goroutine: a call begins
\* when the one before it has returned.
Start(calls) ==
    /\ panicked = "none"
    /\ call = "none"
    /\ Calls < calls
    /\ nstarts' = nstarts + 1
    /\ loggers' = loggers + 1
    /\ call' = "Start"
    /\ UNCHANGED <<now, timer, entries, nextID, running, runs, sendq, closed, execs,
                   printing, stdout, panicked, reading, readErr, lifecycle,
                   nfired, nstops, ndirect, nreads>>

\* Start goes on to s.Cron.Start() (line 93) and returns.
StartCron ==
    /\ panicked = "none"
    /\ call = "Start"
    /\ CronStart
    /\ lifecycle' = "started"
    /\ call' = "none"
    /\ UNCHANGED <<now, nextID, runs, sendq, closed, execs, loggers,
                   printing, stdout, panicked, reading, readErr, nfired,
                   nstarts, nstops, ndirect, nreads>>

\* A Stop that does not reach the run loop: the loop keeps running.
CronStop_NoHalt == running' = running

\* Cron.Stop (line 98): the run loop takes the stop signal, cancels its
\* timer and returns.  The context Cron.Stop returns, which is done when
\* the running jobs are, is dropped by the caller: nothing waits for them.
CronStop == running' = FALSE

\* close(s.runs) (line 99): closing a closed channel panics.  Closing an
\* open one wakes the goroutines blocked sending, each of which panics
\* when it runs next; what is in the buffer stays there to be received.
CloseRuns ==
    IF closed
    THEN panicked' = "close of closed channel" /\ closed' = closed
    ELSE closed' = TRUE /\ panicked' = panicked

\* Stop is called (line 98): s.Cron.Stop().
Stop(calls) ==
    /\ panicked = "none"
    /\ call = "none"
    /\ Calls < calls
    /\ nstops' = nstops + 1
    /\ CronStop
    /\ lifecycle' = "stopped"
    /\ call' = "Stop"
    /\ UNCHANGED <<now, timer, entries, nextID, runs, sendq, closed, execs, loggers,
                   printing, stdout, panicked, reading, readErr, nfired,
                   nstarts, ndirect, nreads>>

\* Stop goes on to close(s.runs) (line 99) and returns.
StopClose ==
    /\ panicked = "none"
    /\ call = "Stop"
    /\ CloseRuns
    /\ call' = "none"
    /\ UNCHANGED <<now, timer, entries, nextID, running, runs, sendq, execs,
                   loggers, printing, stdout, reading, readErr, lifecycle,
                   nfired, nstarts, nstops, ndirect, nreads>>

(***************************************************************************)
(* The methods of the embedded Cron (line 23), which a caller of the       *)
(* scheduler reaches as its own: s.AddFunc (and AddJob, Schedule),         *)
(* s.Remove, s.Run and s.Cron.Start, s.Cron.Stop.                          *)
(***************************************************************************)
\* The specs a caller hands to s.AddFunc.
EmbeddedSpecs == {<<"@", "e", "v", "e", "r", "y", " ", "1", ".", "5", "s">>, <<
                                                                               "e",
                                                                               "v",
                                                                               "e",
                                                                               "r",
                                                                               "y",
                                                                               " ",
                                                                               "d",
                                                                               "a",
                                                                               "y">>, <<
                                                                                        "T",
                                                                                        "Z",
                                                                                        "=",
                                                                                        "U",
                                                                                        "T",
                                                                                        "C">>}

\* What the parser makes of each of them, computed once.
EmbeddedSchedules == [spec \in EmbeddedSpecs |-> ParseStandard(spec)]

\* s.AddFunc(spec, cmd) with a function of the caller's: an entry whose
\* job does not report on s.runs.  A spec the parser rejects adds nothing,
\* one it panics on ends the process.
EmbeddedAddFunc(spec, calls) ==
    /\ panicked = "none"
    /\ Calls < calls
    /\ ndirect' = ndirect + 1
    /\ IF EmbeddedSchedules[spec].ok
       THEN /\ entries' = AddEntry(entries, nextID + 1, running, now, "func",
                                   <<>>, <<>>, EmbeddedSchedules[spec].sched)
            /\ nextID' = nextID + 1
            /\ timer' = IF running THEN NewTimer(entries', now, now) ELSE timer
            /\ panicked' = panicked
       ELSE /\ panicked' = IF EmbeddedSchedules[spec] = ParsePanic
                           THEN ParsePanic.err ELSE panicked
            /\ UNCHANGED <<entries, nextID, timer>>
    /\ UNCHANGED <<now, running, runs, sendq, closed, execs, loggers,
                   printing, stdout, reading, readErr, call, lifecycle,
                   nfired, nstarts, nstops, nreads>>

\* s.Remove(id): the entry of that id leaves the Cron, running or not; the
\* executions of it in flight go on.  A running loop takes the id from
\* c.remove and arms its timer anew.
EmbeddedRemove(id, calls) ==
    /\ panicked = "none"
    /\ Calls < calls
    /\ ndirect' = ndirect + 1
    /\ entries' = SelectSeq(entries, LAMBDA e : e.id # id)
    /\ timer' = IF running THEN NewTimer(entries', now, now) ELSE timer
    /\ UNCHANGED <<now, nextID, running, runs, sendq, closed, execs,
                   loggers, printing, stdout, panicked, reading, readErr,
                   call, lifecycle, nfired, nstarts, nstops, nreads>>

\* s.Cron.Start() or s.Run(): the run loop starts, and no Logger with it.
EmbeddedStart(calls) ==
    /\ panicked = "none"
    /\ Calls < calls
    /\ ndirect' = ndirect + 1
    /\ lifecycle' = "started"
    /\ CronStart
    /\ UNCHANGED <<now, nextID, runs, sendq, closed, execs, loggers,
                   printing, stdout, panicked, reading, readErr, call,
                   nfired, nstarts, nstops, nreads>>

\* s.Cron.Stop(): the run loop halts, and s.runs stays open.
EmbeddedStop(calls) ==
    /\ panicked = "none"
    /\ Calls < calls
    /\ ndirect' = ndirect + 1
    /\ lifecycle' = "stopped"
    /\ CronStop
    /\ UNCHANGED <<now, timer, entries, nextID, runs, sendq, closed, execs,
                   loggers, printing, stdout, panicked, reading, readErr, call,
                   nfired, nstarts, nstops, nreads>>

(***************************************************************************)
(* The run loop of the embedded Cron                                       *)
(***************************************************************************)
\* The entries the loop finds due with t in its `now`: those whose Next
\* is not after t.  The entries are sorted, so these are a prefix of them.
Due(ents, t) == {i \in 1..Len(ents) : ents[i].next # Zero /\ ents[i].next <= t}

\* Closures that share one content variable: every job executes the
\* content of the file that was registered last.
StartJob_SharedContent(e, fid) ==
    [fid |-> fid, entry |-> e.id, fn |-> e.fn, name |-> e.name,
     content |-> (CHOOSE l \in {entries[i] : i \in DOMAIN entries} :
                     \A o \in {entries[i] : i \in DOMAIN entries} :
                         o.id <= l.id).content,
     start |-> Zero, pc |-> "spawned", err |-> "nil"]

\* startJob: cron runs the entry's function in a goroutine of its own: a
\* goroutine that has not run yet, with the jobName and content that the
\* closure captured.
StartJob(e, fid) ==
    [fid |-> fid, entry |-> e.id, fn |-> e.fn, name |-> e.name,
     content |-> e.content, start |-> Zero, pc |-> "spawned", err |-> "nil"]

\* A timer that Stop does not cancel: it fires whether the loop runs or not.
TimerReady_Unstopped == timer # Zero /\ timer <= now

\* A loop that runs its jobs itself, one after another: the timer is served
\* only when no execution is in flight.
TimerReady_WaitsForJobs ==
    running /\ timer # Zero /\ timer <= now /\ execs = {}

\* The loop can receive from its timer: the loop runs (Stop stops the
\* timer and ends the loop) and the timer has expired.  The loop waits for
\* nothing else: jobs run in goroutines of their own and the loop never
\* joins them.
TimerReady == running /\ timer # Zero /\ timer <= now

\* A loop that schedules a fired entry from the fire time it served, not
\* from the time its timer carries: an entry served by a timer that
\* expired later is due again at once.
TimerFire_CatchesUp(firings) ==
    /\ panicked = "none"
    /\ TimerReady
    /\ nfired + Cardinality(Due(entries, timer)) <= firings
    /\ LET due == Due(entries, timer)
       IN  /\ execs' = execs \cup
                  {StartJob(entries[i], nfired + i) : i \in due}
           /\ nfired' = nfired + Cardinality(due)
           /\ entries' = SortByTime(
                  [i \in 1..Len(entries) |->
                      IF i \in due
                      THEN [entries[i] EXCEPT
                              !.prev = entries[i].next,
                              !.next = ScheduleNext(entries[i].sched,
                                                    entries[i].next)]
                      ELSE entries[i]])
    /\ timer' = NewTimer(entries', timer, now)
    /\ UNCHANGED <<now, nextID, running, runs, sendq, closed, loggers,
                   printing, stdout, panicked, reading, readErr, call,
                   lifecycle, nstarts, nstops, ndirect, nreads>>

\* The loop receives from its timer (case now = <-timer.C): its `now` is
\* the instant the timer expired, which the clock may have passed by the
\* time the loop runs.  Every entry due at that instant is started and is
\* scheduled again from it; then the loop sorts the entries and arms the
\* timer anew, from its `now` and at the time of the clock.
TimerFire(firings) ==
    /\ panicked = "none"
    /\ TimerReady
    /\ nfired + Cardinality(Due(entries, timer)) <= firings
    /\ LET due == Due(entries, timer)
       IN  /\ execs' = execs \cup
                  {StartJob(entries[i], nfired + i) : i \in due}
           /\ nfired' = nfired + Cardinality(due)
           /\ entries' = SortByTime(
                  [i \in 1..Len(entries) |->
                      IF i \in due
                      THEN [entries[i] EXCEPT
                              !.prev = entries[i].next,
                              !.next = ScheduleNext(entries[i].sched, timer)]
                      ELSE entries[i]])
    /\ timer' = NewTimer(entries', timer, now)
    /\ UNCHANGED <<now, nextID, running, runs, sendq, closed, loggers,
                   printing, stdout, panicked, reading, readErr, call,
                   lifecycle, nstarts, nstops, ndirect, nreads>>

\* The goroutine of a function handed to s.AddFunc by the caller runs the
\* function, which returns.
FuncReturn(e) ==
    /\ panicked = "none"
    /\ e \in execs
    /\ e.fn = "func"
    /\ execs' = execs \ {e}
    /\ UNCHANGED <<now, timer, entries, nextID, running, runs, sendq, closed,
                   loggers, printing, stdout, panicked, reading, readErr,
                   call, lifecycle, nfired, nstarts, nstops, ndirect, nreads>>

(***************************************************************************)
(* runFunc (lines 73-81)                                                   *)
(***************************************************************************)
\* The goroutine of the job runs: runFunc reads the clock (start :=
\* time.Now(), line 74), at the fire time or later, and calls
\* s.driver.Execute(content) (line 75).
RunFunc(e) ==
    /\ panicked = "none"
    /\ e \in execs
    /\ e.fn = "runFunc"
    /\ e.pc = "spawned"
    /\ execs' = (execs \ {e}) \cup {[e EXCEPT !.pc = "exec", !.start = now]}
    /\ UNCHANGED <<now, timer, entries, nextID, running, runs, sendq, closed,
                   loggers, printing, stdout, panicked, reading, readErr,
                   call, lifecycle, nfired, nstarts, nstops, ndirect, nreads>>

\* An Execute that, when it fails, takes the loop down with it.
ExecuteReturn_FailStopsLoop(e, err) ==
    /\ panicked = "none"
    /\ e \in execs
    /\ e.pc = "exec"
    /\ execs' = (execs \ {e}) \cup {[e EXCEPT !.pc = "returned", !.err = err]}
    /\ running' = (running /\ err = "nil")
    /\ UNCHANGED <<now, timer, entries, nextID, runs, sendq, closed, loggers,
                   printing, stdout, panicked, reading, readErr, call, lifecycle,
                   nfired, nstarts, nstops, ndirect, nreads>>

\* s.driver.Execute(content) returns (line 75).  A job that hangs never
\* takes this step.
ExecuteReturn(e, err) ==
    /\ panicked = "none"
    /\ e \in execs
    /\ e.pc = "exec"
    /\ execs' = (execs \ {e}) \cup {[e EXCEPT !.pc = "returned", !.err = err]}
    /\ UNCHANGED <<now, timer, entries, nextID, running, runs, sendq, closed,
                   loggers, printing, stdout, panicked, reading, readErr,
                   call, lifecycle, nfired, nstarts, nstops, ndirect, nreads>>

\* A Run that loses the error Execute returned.
MakeRun_NoError(e, t) ==
    [Name |-> e.name, Error |-> "nil", Duration |-> t - e.start]

\* The Run that runFunc builds (lines 76-80).
MakeRun(e, t) == [Name |-> e.name, Error |-> e.err, Duration |-> t - e.start]

\* A send that gives up when the buffer is full: the Run is dropped.
Park_Drops(e) ==
    /\ execs' = execs \ {e}
    /\ UNCHANGED <<runs, sendq, panicked>>

\* A send that finds the buffer full: the goroutine queues itself on the
\* channel and blocks, its run in hand.
Park(e) ==
    /\ sendq' = Append(sendq, [fid |-> e.fid, run |-> MakeRun(e, now)])
    /\ execs' = (execs \ {e}) \cup {[e EXCEPT !.pc = "parked"]}
    /\ UNCHANGED <<runs, panicked>>

\* s.runs <- &Run{...} (lines 76-80): a send on a closed channel panics;
\* with room in the buffer the run is queued and runFunc returns; with a
\* full buffer the goroutine blocks until a receive makes room.
SendRun(e, capacity) ==
    /\ panicked = "none"
    /\ e \in execs
    /\ e.pc = "returned"
    /\ IF closed
       THEN /\ panicked' = "send on closed channel"
            /\ execs' = execs \ {e}
            /\ UNCHANGED <<runs, sendq>>
       ELSE IF Len(runs) < capacity
       THEN /\ runs' = Append(runs, MakeRun(e, now))
            /\ execs' = execs \ {e}
            /\ UNCHANGED <<sendq, panicked>>
       ELSE Park(e)
    /\ UNCHANGED <<now, timer, entries, nextID, running, closed, loggers, printing,
                   stdout, reading, readErr, call, lifecycle, nfired, nstarts,
                   nstops, ndirect, nreads>>

\* A goroutine that was blocked sending when s.runs was closed runs
\* again: its send panics (lines 76-80).  The close woke every blocked
\* sender, and any of them can be the one that runs first.
SenderPanic ==
    /\ panicked = "none"
    /\ closed
    /\ \E i \in DOMAIN sendq :
          /\ sendq' = SubSeq(sendq, 1, i - 1) \o SubSeq(sendq, i + 1, Len(sendq))
          /\ execs' = {e \in execs : e.fid # sendq[i].fid}
    /\ panicked' = "send on closed channel"
    /\ UNCHANGED <<now, timer, entries, nextID, running, runs, closed, loggers,
                   printing, stdout, reading, readErr, call, lifecycle,
                   nfired, nstarts, nstops, ndirect, nreads>>

(***************************************************************************)
(* logger (lines 103-112)                                                  *)
(***************************************************************************)
\* The Logger goroutines that wait in `range runs`: those that hold no Run.
Idle == loggers - BagCardinality(printing)

\* A Logger that has received run and has the given Printf call next.
Holding(run, pc) == SetToBag({[run |-> run, pc |-> pc]})

\* A channel that hands out the newest element of its buffer first.
Recv_Newest(buf) ==
    [run |-> buf[Len(buf)], rest |-> SubSeq(buf, 1, Len(buf) - 1)]

\* A receive from the buffer of the channel: the element that entered
\* first leaves, the others stay in their order.
Recv(buf) == [run |-> Head(buf), rest |-> Tail(buf)]

\* `for run := range runs` (line 104) receives the oldest Run; the Logger
\* that took it has its first Printf (line 105) next.  This is the receive
\* with no sender blocked, or from a closed channel, which passes the
\* buffer on and takes no Run from a sender.
LoggerRecv ==
    /\ panicked = "none"
    /\ Idle > 0
    /\ runs # <<>>
    /\ (sendq = <<>> \/ closed)
    /\ printing' = printing (+) Holding(Recv(runs).run, "name")
    /\ runs' = Recv(runs).rest
    /\ UNCHANGED <<now, timer, entries, nextID, running, sendq, closed, execs,
                   loggers, stdout, panicked, reading, readErr, call, lifecycle,
                   nfired, nstarts, nstops, ndirect, nreads>>

\* The same receive with a sender blocked on the full buffer of the open
\* channel: the receive makes room, the first blocked sender's run takes
\* it, and that runFunc returns.
LoggerRecvUnblock ==
    /\ panicked = "none"
    /\ Idle > 0
    /\ runs # <<>>
    /\ sendq # <<>>
    /\ ~closed
    /\ printing' = printing (+) Holding(Recv(runs).run, "name")
    /\ runs' = Append(Recv(runs).rest, Head(sendq).run)
    /\ sendq' = Tail(sendq)
    /\ execs' = {e \in execs : e.fid # Head(sendq).fid}
    /\ UNCHANGED <<now, timer, entries, nextID, running, closed, loggers, stdout,
                   panicked, reading, readErr, call, lifecycle, nfired, nstarts,
                   nstops, ndirect, nreads>>

\* fmt.Printf("Running %s: ", run.Name) (line 105) of a Logger that holds
\* a Run.
PrintName(p) ==
    /\ panicked = "none"
    /\ BagIn(p, printing)
    /\ p.pc = "name"
    /\ stdout' = Append(stdout, [fmt |-> "Running %s: ", arg |-> p.run.Name])
    /\ printing' = (printing (-) Holding(p.run, "name"))
                       (+) Holding(p.run, "result")
    /\ UNCHANGED <<now, timer, entries, nextID, running, runs, sendq, closed, execs,
                   loggers, panicked, reading, readErr, call, lifecycle, nfired,
                   nstarts, nstops, ndirect, nreads>>

\* The second Printf of that Logger (lines 106-110): the error, or OK.
\* With it the turn of the loop ends, and the Logger is back in its range.
PrintResult(p) ==
    /\ panicked = "none"
    /\ BagIn(p, printing)
    /\ p.pc = "result"
    /\ stdout' = Append(stdout,
                        IF p.run.Error # "nil"
                        THEN [fmt |-> "error=%s\n", arg |-> <<p.run.Error>>]
                        ELSE [fmt |-> "OK\n", arg |-> <<>>])
    /\ printing' = printing (-) Holding(p.run, "result")
    /\ UNCHANGED <<now, timer, entries, nextID, running, runs, sendq, closed, execs,
                   loggers, panicked, reading, readErr, call, lifecycle, nfired,
                   nstarts, nstops, ndirect, nreads>>

\* A Logger that stops reading as soon as the channel is closed.
RangeDone_OnClose == closed

\* When `range runs` ends: the channel is closed and nothing is left in
\* its buffer.
RangeDone == closed /\ runs = <<>>

\* The range loop ends, and with it the goroutine.
LoggerExit ==
    /\ panicked = "none"
    /\ Idle > 0
    /\ RangeDone
    /\ loggers' = loggers - 1
    /\ UNCHANGED <<now, timer, entries, nextID, running, runs, sendq, closed, execs,
                   printing, stdout, panicked, reading, readErr, call, lifecycle,
                   nfired, nstarts, nstops, ndirect, nreads>>

(***************************************************************************)
(* The clock                                                               *)
(***************************************************************************)
\* The clock moves on by a second, up to the last instant of the model.
Tick(maxTime) ==
    /\ panicked = "none"
    /\ now < ProcessStart + maxTime
    /\ now' = now + 1
    /\ UNCHANGED <<timer, entries, nextID, running, runs, sendq, closed, execs,
                   loggers, printing, stdout, panicked, reading, readErr,
                   call, lifecycle, nfired, nstarts, nstops, ndirect, nreads>>

(***************************************************************************)
(* The specification                                                       *)
(***************************************************************************)
\* A New that hands out a Cron whose loop is already running.
Init_CronRunning ==
    /\ now = ProcessStart
    /\ timer = Zero
    /\ entries = <<>>
    /\ nextID = 0
    /\ running = TRUE
    /\ runs = <<>>
    /\ sendq = <<>>
    /\ closed = FALSE
    /\ execs = {}
    /\ loggers = 0
    /\ printing = EmptyBag
    /\ stdout = <<>>
    /\ panicked = "none"
    /\ reading = Returned("")
    /\ readErr = Nil
    /\ call = "none"
    /\ lifecycle = "new"
    /\ nfired = 0
    /\ nstarts = 0
    /\ nstops = 0
    /\ ndirect = 0
    /\ nreads = 0

\* New (lines 30-37): no entries, an open and empty channel, nothing
\* running.
Init ==
    /\ now = ProcessStart
    /\ timer = Zero
    /\ entries = <<>>
    /\ nextID = 0
    /\ running = FALSE
    /\ runs = <<>>
    /\ sendq = <<>>
    /\ closed = FALSE
    /\ execs = {}
    /\ loggers = 0
    /\ printing = EmptyBag
    /\ stdout = <<>>
    /\ panicked = "none"
    /\ reading = Returned("")
    /\ readErr = Nil
    /\ call = "none"
    /\ lifecycle = "new"
    /\ nfired = 0
    /\ nstarts = 0
    /\ nstops = 0
    /\ ndirect = 0
    /\ nreads = 0

Next ==
    \/ \E d \in DirNames : ReadFiles(d, MaxReads)
    \/ ReadNext
    \/ Start(MaxCalls)
    \/ StartCron
    \/ Stop(MaxCalls)
    \/ StopClose
    \/ \E spec \in EmbeddedSpecs : EmbeddedAddFunc(spec, MaxCalls)
    \/ \E i \in DOMAIN entries : EmbeddedRemove(entries[i].id, MaxCalls)
    \/ EmbeddedStart(MaxCalls)
    \/ EmbeddedStop(MaxCalls)
    \/ TimerFire(MaxFirings)
    \/ \E e \in execs : FuncReturn(e)
    \/ \E e \in execs : RunFunc(e)
    \/ \E e \in execs : \E err \in ExecuteErrs : ExecuteReturn(e, err)
    \/ \E e \in execs : SendRun(e, RunsCap)
    \/ SenderPanic
    \/ LoggerRecv
    \/ LoggerRecvUnblock
    \/ \E p \in BagToSet(printing) : PrintName(p)
    \/ \E p \in BagToSet(printing) : PrintResult(p)
    \/ LoggerExit
    \/ Tick(MaxTime)

Spec == Init /\ [][Next]_vars

\* The scheduler under a caller that registers the directory "jobs" and
\* uses Start and Stop, with a channel that holds two Runs and a clock
\* that runs long enough for the channel to fill and a job to come due
\* after that.
LongNext ==
    \/ ReadFiles("jobs", MaxReads)
    \/ ReadNext
    \/ Start(LongCalls)
    \/ StartCron
    \/ Stop(LongCalls)
    \/ StopClose
    \/ TimerFire(LongFirings)
    \/ \E e \in execs : RunFunc(e)
    \/ \E e \in execs : \E err \in ExecuteErrs : ExecuteReturn(e, err)
    \/ \E e \in execs : SendRun(e, LongCap)
    \/ SenderPanic
    \/ LoggerRecv
    \/ LoggerRecvUnblock
    \/ \E p \in BagToSet(printing) : PrintName(p)
    \/ \E p \in BagToSet(printing) : PrintResult(p)
    \/ LoggerExit
    \/ Tick(LongTime)

LongSpec == Init /\ [][LongNext]_vars

\* The Go scheduler runs every goroutine that can run: the Logger is not
\* starved of its turn.
Logger ==
    \/ LoggerRecv
    \/ LoggerRecvUnblock
    \/ \E p \in BagToSet(printing) : PrintName(p)
    \/ \E p \in BagToSet(printing) : PrintResult(p)
    \/ LoggerExit

FairSpec == Spec /\ WF_vars(Logger)

(***************************************************************************)
(* Properties                                                              *)
(***************************************************************************)
\* The executions that a step starts.
Started == {e \in execs' : \A o \in execs : o.fid # e.fid}

\* Execution e is gone after the step: its runFunc returned or panicked.
Gone(e) == \A o \in execs' : o.fid # e.fid

\* Every registered job has a name of its own.
NamesDiffer ==
    Cardinality({entries[i].name : i \in DOMAIN entries}) = Len(entries)

\* The caller has used the scheduler's own methods only, none of the
\* embedded Cron's.
OwnMethodsOnly == ndirect = 0

\* The scheduler was started once and then stopped once, and Stop has
\* returned.
StartedThenStopped ==
    /\ nstarts = 1
    /\ nstops = 1
    /\ OwnMethodsOnly
    /\ lifecycle = "stopped"
    /\ call = "none"

\* The Printf calls of the Loggers' first Printf, and of their second.
NameLines == {i \in DOMAIN stdout : stdout[i].fmt = "Running %s: "}
ResultLines == DOMAIN stdout \ NameLines

\* The Runs the Loggers have received: those in their hands and those
\* printed in full.
NumReceived == BagCardinality(printing) + Cardinality(ResultLines)

\* The Loggers printed the name of job n.
PrintedName(n) == \E i \in NameLines : stdout[i].arg = n

\* C1: no execution of runFunc sends a Run on s.runs after Stop closed it:
\* when a started scheduler is stopped, whatever the interleaving of Stop
\* with the executions in flight, no send finds the channel closed.
C1_NoSendAfterClose ==
    StartedThenStopped => panicked # "send on closed channel"

\* C2: whatever the sequence of Start and Stop calls, s.runs is closed at
\* most once: no call of close finds the channel already closed.
C2_ClosedAtMostOnce ==
    OwnMethodsOnly => panicked # "close of closed channel"

\* C3: every firing yields exactly one Run, none lost and none twice, also
\* when Stop is called with executions in flight: each of the nfired
\* executions started so far is still in flight, or its Run is in the
\* channel's buffer, or its Run was received by the Logger.
C3_OneRunPerFiring ==
    (OwnMethodsOnly /\ (nstops = 0 \/ StartedThenStopped)) =>
        nfired = Cardinality(execs) + Len(runs) + NumReceived

\* Nothing was fired and no Run exists anywhere, and no send has found
\* the channel closed.
NoRunResults ==
    /\ nfired = 0
    /\ execs = {}
    /\ runs = <<>>
    /\ sendq = <<>>
    /\ printing = EmptyBag
    /\ stdout = <<>>
    /\ panicked # "send on closed channel"

\* The Cron was stopped after it was last started, Start was called, and
\* nothing had fired.
StoppedBeforeFire ==
    lifecycle = "stopped" /\ nstarts >= 1 /\ nfired = 0

\* C4: when Stop is called after Start and before any job has fired, no
\* Run is ever produced and no send ever finds the channel closed, however
\* much time passes, for as long as the Cron is not started again.
C4_StopBeforeAnyFire ==
    /\ [](StoppedBeforeFire => NoRunResults)
    /\ [][StoppedBeforeFire => (lifecycle' # "stopped" \/ NoRunResults')]_vars

\* C4's case: a scheduler started and stopped once with nothing fired, and
\* the clock now past the fire time of a job that was never run.
C4_Witness ==
    /\ StartedThenStopped
    /\ Due(entries, now) # {}
    /\ NoRunResults

\* C5: from the return of Stop on, and until the Cron is started again,
\* the run loop starts no execution, whatever fire time arrives; and Stop
\* itself leaves the executions started before it running.
C5_StopHaltsLoop ==
    [][ /\ (lifecycle = "stopped" /\ lifecycle' = "stopped")
            => (nfired' = nfired /\ Started = {})
        /\ (nstops' > nstops \/ (call = "Stop" /\ call' = "none"))
            => \A e \in execs :
                  e.pc \in {"spawned", "exec", "returned"} => e \in execs'
      ]_vars

\* C5's case: after Stop an execution started before it is still running,
\* and a fire time that arrived after the last firing goes unserved.
C5_Witness ==
    /\ StartedThenStopped
    /\ panicked = "none"
    /\ \E e \in execs : e.pc = "exec"
    /\ Due(entries, now) # {}

\* C6: Stopped is terminal: once Stop has been called, no later call
\* makes the loop fire jobs again; in particular, after a Stop and a
\* second Start no job is fired.
C6_StoppedIsTerminal ==
    [][(nstops >= 1 /\ nstarts >= 2) => nfired' = nfired]_vars

\* The loop is not held back by the executions in flight: whenever it
\* runs and its timer has expired, its step can be taken, whatever the
\* executions started before are doing: running, hung in Execute or
\* blocked on the full channel.
LoopNeverWaits ==
    (/\ panicked = "none"
     /\ running
     /\ timer # Zero
     /\ timer <= now
     /\ nfired + Cardinality(Due(entries, timer)) <= LongFirings)
        => ENABLED TimerFire(LongFirings)

\* No execution is held back by another: one that has not run yet can
\* run, one in Execute can return, and one that has returned can send,
\* which on the full channel blocks that goroutine alone.
JobsNeverWait ==
    panicked = "none" => \A e \in execs :
        /\ (e.fn = "runFunc" /\ e.pc = "spawned") => ENABLED RunFunc(e)
        /\ e.pc = "exec" => ENABLED ExecuteReturn(e, "nil")
        /\ e.pc = "returned" => ENABLED SendRun(e, LongCap)

\* A firing starts one execution for every entry that is due at the time
\* the timer carries, all at once, and touches no execution in flight and
\* no Run.
FireStartsAllDue ==
    nfired' # nfired =>
        /\ Due(entries, timer) # {}
        /\ Cardinality(Started) = Cardinality(Due(entries, timer))
        /\ execs \subseteq execs'
        /\ UNCHANGED <<runs, sendq, printing>>
        /\ \A i \in Due(entries, timer) :
              \E e \in Started : /\ e.entry = entries[i].id
                                 /\ e.name = entries[i].name
                                 /\ e.pc = "spawned"

\* Every execution that comes to its send on the open channel produces
\* its Run: the Run enters the buffer, or stays in the hand of the sender
\* blocked on the full channel.
EachSendYieldsRun ==
    \A e \in execs :
        (e.pc = "returned" /\ ~closed /\ e \notin execs') =>
            \/ Gone(e) /\ runs' = Append(runs, MakeRun(e, now))
            \/ /\ [e EXCEPT !.pc = "parked"] \in execs'
               /\ sendq' = Append(sendq, [fid |-> e.fid,
                                          run |-> MakeRun(e, now)])

\* C7: the run loop never waits for a job: with executions still running,
\* hung or blocked on the full channel, the loop serves its timer and
\* starts every entry that is due, entries due at the same instant
\* together; no execution waits for another, and each that comes to its
\* send on the open channel produces its Run.
C7_LoopNeverWaitsForJobs ==
    /\ [](LoopNeverWaits)
    /\ [](JobsNeverWait)
    /\ [][FireStartsAllDue /\ EachSendYieldsRun]_vars

\* The Runs that exist: buffered, in the hand of a blocked sender, in the
\* hand of a Logger.
AllRuns ==
    {runs[i] : i \in DOMAIN runs}
        \cup {sendq[i].run : i \in DOMAIN sendq}
        \cup {p.run : p \in BagToSet(printing)}

\* C7's case: the channel is full and an execution is blocked sending on
\* it; job a, which fires every second, was started again by a timer that
\* expired after that execution blocked, and that execution of a has not
\* run yet.  Before that, a and b were due at the same instant: a has
\* fired at each of three successive seconds and b at the second of them,
\* and the Runs of both are produced.
C7_Witness ==
    /\ panicked = "none"
    /\ ~closed
    /\ nfired = 4
    /\ Len(runs) = LongCap
    /\ \E p \in execs : \E i, j \in DOMAIN entries :
          /\ p.pc = "parked"
          /\ entries[i].name = <<"a">>
          /\ entries[j].name = <<"b">>
          /\ entries[i].prev = ProcessStart + 3
          /\ entries[j].prev = ProcessStart + 2
          /\ entries[i].prev > p.start + (CHOOSE q \in {sendq[k] : k \in DOMAIN sendq} :
                                             q.fid = p.fid).run.Duration
          /\ \E e \in execs : e.entry = entries[i].id /\ e.pc = "spawned"
    /\ \E r1, r2 \in AllRuns : r1.Name = <<"a">> /\ r2.Name = <<"b">>

\* The Run an execution that reached its send has in hand.
RunOf(e) ==
    IF e.pc = "parked"
    THEN (CHOOSE q \in {sendq[i] : i \in DOMAIN sendq} : q.fid = e.fid).run
    ELSE MakeRun(e, now)

\* The step puts e's Run at the tail of the channel's buffer.
Delivered(e) == runs' # <<>> /\ runs'[Len(runs')] = RunOf(e)

\* C8: s.runs never holds more than its capacity; an execution whose send
\* finds the open channel full stays blocked, and leaves only when a
\* receive by the Logger makes room, its Run then entering the buffer.  No
\* Run is dropped because the buffer was full: a sender ends without its
\* Run delivered only when the channel is closed.
C8_FullChannelBlocks ==
    /\ [](Len(runs) <= RunsCap)
    /\ [][execs' # execs => \A e \in execs :
            /\ (e.pc \in {"returned", "parked"} /\ Gone(e))
                  => (Delivered(e) \/ closed')
            /\ (e.pc = "returned" /\ Len(runs) = RunsCap /\ ~closed)
                  => ~Gone(e)
            /\ (e.pc = "parked" /\ Gone(e) /\ ~closed')
                  => printing' = printing (+) Holding(Head(runs), "name")
         ]_vars

\* C8's case: the channel is full and open, and a finished execution is
\* blocked sending to it while a Logger is there to receive.
C8_Witness ==
    /\ OwnMethodsOnly
    /\ panicked = "none"
    /\ ~closed
    /\ loggers > 0
    /\ Len(runs) = RunsCap
    /\ \E e \in execs : e.pc = "parked"

\* C9: a Logger goroutine ends only when s.runs is closed and empty, and
\* once the channel is closed the Runs still buffered are received and
\* every Logger ends (unless a panic ends the whole process first).
C9_LoggerDrainsThenExits ==
    /\ [][loggers' < loggers => (closed /\ runs = <<>>)]_vars
    /\ (closed /\ loggers > 0 /\ runs # <<>>)
          ~> (runs = <<>> \/ panicked # "none")
    /\ (closed /\ loggers > 0) ~> (loggers = 0 \/ panicked # "none")

\* C9's case: after Stop every Run that was fired has been printed, the
\* channel is empty and the Logger is gone.
C9_Witness ==
    /\ StartedThenStopped
    /\ panicked = "none"
    /\ loggers = 0
    /\ runs = <<>>
    /\ stdout # <<>>
    /\ Cardinality(ResultLines) = nfired

\* The Run that the step queued for e: at the tail of the buffer when e
\* is gone, in the hand of the blocked sender otherwise.
QueuedFor(e) ==
    IF Gone(e) THEN runs'[Len(runs')] ELSE sendq'[Len(sendq')].run

\* C10: the Run sent for an execution carries the error value that
\* Execute returned to it, nil when Execute succeeded, and the name of its
\* job; and the return of Execute, error or not, leaves the loop, its
\* entries and the process as they were.
C10_RunCarriesError ==
    [][execs' # execs => \A e \in execs :
          /\ (e.pc = "returned" /\ ~closed /\ e \notin execs')
                => /\ IF Gone(e) THEN Len(runs') = Len(runs) + 1
                      ELSE Len(sendq') = Len(sendq) + 1
                   /\ QueuedFor(e).Name = e.name
                   /\ QueuedFor(e).Error = e.err
          /\ (e.pc = "exec" /\ e \notin execs')
                => /\ \E err \in ExecuteErrs :
                        [e EXCEPT !.pc = "returned", !.err = err] \in execs'
                   /\ UNCHANGED <<entries, running, nfired, panicked>>
      ]_vars

\* C10's case: the Run of an execution whose Execute failed was printed
\* with that error after the job's name, and the scheduler is still
\* running.
C10_Witness ==
    /\ OwnMethodsOnly
    /\ panicked = "none"
    /\ running
    /\ loggers = 1
    /\ \E i \in ResultLines :
          /\ stdout[i].fmt = "error=%s\n"
          /\ stdout[i].arg = <<"E1">>
          /\ (i - 1) \in NameLines

(***************************************************************************)
(* Claims about failures of jobs and of registration                       *)
(***************************************************************************)
\* Execution e takes a step: it leaves execs or changes there.
Steps(e) == e \in execs /\ e \notin execs'

\* C11: a failing execution changes no schedule entry and does not stop
\* the loop: the step on which Execute returns an error, and the step on
\* which the Run carrying that error is sent, leave the entries (the
\* failing job's own and every other's) and the loop exactly as they
\* were, so that what fires next is what would fire after a success; and
\* a send that ends the process does so because the channel is closed,
\* never because of the error.
C11_FailureLeavesSchedule ==
    [][execs' # execs => \A e \in execs :
          /\ (e.pc = "exec" /\ [e EXCEPT !.pc = "returned", !.err = "E1"]
                                  \in execs' /\ Steps(e))
                => /\ UNCHANGED <<entries, running, nfired, panicked>>
                   /\ Due(entries', now') = Due(entries, now)
                   /\ TimerReady' = TimerReady
          /\ (e.pc = "returned" /\ e.err # "nil" /\ Steps(e))
                => /\ UNCHANGED <<entries, running, nfired>>
                   /\ TimerReady' = TimerReady
                   /\ (panicked' # panicked => closed)
      ]_vars

\* C11's case: with every job under a name of its own and one Logger, a
\* job's execution failed and its Run was printed with the error, the same
\* job was fired again at its next time, and every entry has its next fire
\* time ahead.
C11_Witness ==
    /\ OwnMethodsOnly
    /\ panicked = "none"
    /\ NamesDiffer
    /\ nstarts = 1
    /\ \E i \in ResultLines :
          /\ stdout[i].fmt = "error=%s\n"
          /\ (i - 1) \in NameLines
          /\ \E e \in execs : e.name = stdout[i - 1].arg
    /\ \A i \in DOMAIN entries : entries[i].next > now

\* File f can be read and carries a cron spec that AddFunc accepts.
ValidFile(f) == FileError(f) = Nil

\* The files of a directory, as a set.
FilesOf(dirname) ==
    {ReadDir(dirname).files[k] : k \in DOMAIN ReadDir(dirname).files}

\* File f is registered: an entry has f's job name and f's content.
Registered(f) ==
    \E i \in DOMAIN entries : /\ entries[i].fn = "runFunc"
                              /\ entries[i].name = JobName(f.name)
                              /\ entries[i].content = f.data

\* C12: a registration error for one file does not abort the registration
\* of the others: when a call of ReadFiles on a directory that can be
\* listed, and whose files can all be read, has returned, every file of the
\* directory that has a valid spec is registered, whatever the other files
\* hold.
C12_ErrorDoesNotAbort ==
    (/\ OwnMethodsOnly /\ nreads >= 1 /\ reading.i = 0
     /\ \A f \in FilesOf(reading.dir) : f.readable) =>
        \A f \in FilesOf(reading.dir) : ValidFile(f) => Registered(f)

\* Nothing in the scheduler belongs to a job named n: no entry, no
\* execution, no Run, no line printed.
NeverScheduled(n) ==
    /\ \A i \in DOMAIN entries : entries[i].name # n
    /\ \A e \in execs : e.name # n
    /\ \A r \in AllRuns : r.Name # n
    /\ ~PrintedName(n)

\* The files that can be read and have no cron spec that AddFunc accepts,
\* and the files that are registered when the loop comes to them.
InvalidFiles == {f \in AllFiles : f.readable /\ ~ValidFile(f)}
ValidFiles == {f \in AllFiles : ValidFile(f)}

\* The turn of the loop of ReadFiles that the step takes: the directory
\* and the index of the file, index 0 when the step is no turn.
Turn ==
    IF nreads' # nreads THEN [dir |-> reading'.dir, i |-> 1]
    ELSE IF reading' # reading THEN reading
    ELSE Returned("")

\* The step is the turn of the loop of ReadFiles at file f.
TurnAt(f) ==
    /\ Turn.i \in DOMAIN ReadDir(Turn.dir).files
    /\ ReadDir(Turn.dir).files[Turn.i] = f

\* C13: registering a file whose spec cannot be parsed, or that has no
\* cron marker line, returns an error that names the file and adds no
\* entry for it; and at no later time does the scheduler hold an entry,
\* run an execution or report a Run of that job.
C13_BadSpecNeverFires ==
    /\ [](\A f \in InvalidFiles : NeverScheduled(JobName(f.name)))
    /\ [][\A f \in InvalidFiles :
            TurnAt(f) => /\ readErr' # Nil
                         /\ readErr'.file = f.name
                         /\ readErr'.msg # "nil"
                         /\ reading'.i = 0
                         /\ entries' = entries
        ]_vars

\* C13's case: ReadFiles returned the error of a file with an unparsable
\* spec, and the scheduler then ran and printed the Run of another job.
C13_Witness ==
    /\ OwnMethodsOnly
    /\ readErr.msg = "expected exactly 5 fields"
    /\ readErr.file = FileBadSpec.name
    /\ ResultLines # {}
    /\ now = ProcessStart + MaxTime

(***************************************************************************)
(* Claims about registration and the schedule                              *)
(***************************************************************************)
\* C14: registration does not start firing: as long as the Cron has not
\* been started, whatever was registered and however much time has passed,
\* the loop is not running, no entry has a fire time, no execution was
\* started and no Run exists.
C14_NoFiringBeforeStart ==
    (nstarts = 0 /\ OwnMethodsOnly) =>
        /\ ~running
        /\ \A i \in DOMAIN entries : entries[i].next = Zero
        /\ nfired = 0
        /\ execs = {}
        /\ AllRuns = {}
        /\ stdout = <<>>

\* C14's case: jobs are registered, Start was never called, and the clock
\* is past the first times of their specs.
C14_Witness ==
    /\ nstarts = 0
    /\ nstops = 0
    /\ OwnMethodsOnly
    /\ Len(entries) >= 2
    /\ now = ProcessStart + MaxTime

\* C15: the Cron never holds two entries of the same job name: a file
\* whose name without its extension equals the name of a job already
\* registered is refused.
C15_NoDuplicateNames ==
    OwnMethodsOnly =>
        \A i, j \in DOMAIN entries :
            i # j => entries[i].name # entries[j].name

\* Time u is an occurrence of the spec of sched, for a schedule computed
\* at time t: a constant delay counts from t, a spec schedule names the
\* seconds it matches in its zone.
Occurs(sched, t, u) ==
    IF sched.kind = "every" THEN u > t /\ (u - t) % sched.n = 0
    ELSE Matches(sched, u + sched.loc)

\* Time u is the soonest occurrence of the spec after time t.
SoonestAfter(sched, t, u) ==
    /\ u > t
    /\ Occurs(sched, t, u)
    /\ \A v \in (t + 1)..(u - 1) : ~Occurs(sched, t, v)

\* The entry of the given id among ents.
EntryById(ents, id) == ents[CHOOSE i \in DOMAIN ents : ents[i].id = id]

\* Every entry that fired has a next fire time, and every next fire time
\* is after the entry's last one.
NextAfterPrev ==
    \A i \in DOMAIN entries :
        /\ entries[i].prev # Zero => entries[i].next # Zero
        /\ entries[i].next # Zero => entries[i].next > entries[i].prev

\* The time the loop has in its `now` when the step schedules entries:
\* the time its timer carries when the step is a firing, and the clock
\* when the loop starts, adds an entry or removes one.
LoopNow == IF nfired' # nfired THEN timer ELSE now

\* Whenever a step gives an entry a fire time, it is the soonest occurrence
\* of the entry's spec after the time it is computed from; an entry that
\* a step fires was due at the time the timer carries, for a time after its
\* last firing, and its new fire time is later than the timer's.
NextIsSoonest ==
    /\ entries' # entries => \A i \in DOMAIN entries' :
          LET n == entries'[i]
          IN  IF n.id > nextID
              THEN n.next # Zero => SoonestAfter(n.sched, LoopNow, n.next)
              ELSE LET o == EntryById(entries, n.id)
                   IN  /\ n.sched = o.sched
                       /\ n.next # o.next
                             => SoonestAfter(n.sched, LoopNow, n.next)
    /\ nfired' # nfired => \A e \in Started :
          LET o == EntryById(entries, e.entry)
              n == EntryById(entries', e.entry)
          IN  /\ o.next # Zero
              /\ o.next <= timer
              /\ timer <= now
              /\ o.prev < o.next
              /\ n.prev = o.next
              /\ n.next > timer

\* The same with the clock as the time every fire time is computed from:
\* a fire time is the soonest occurrence after the current time, and an
\* entry that is fired has its new fire time ahead of the clock.
NextIsSoonestAfterClock ==
    /\ entries' # entries => \A i \in DOMAIN entries' :
          LET n == entries'[i]
          IN  IF n.id > nextID
              THEN n.next # Zero => SoonestAfter(n.sched, now, n.next)
              ELSE LET o == EntryById(entries, n.id)
                   IN  /\ n.sched = o.sched
                       /\ n.next # o.next
                             => SoonestAfter(n.sched, now, n.next)
    /\ nfired' # nfired => \A e \in Started :
          LET o == EntryById(entries, e.entry)
              n == EntryById(entries', e.entry)
          IN  /\ o.next # Zero
              /\ o.next <= now
              /\ o.prev < o.next
              /\ n.prev = o.next
              /\ n.next > now

OneDispatchPerExpiry ==
    nfired' # nfired =>
        /\ timer <= now
        /\ \A i \in Due(entries, timer) :
              /\ Cardinality({e \in Started : e.entry = entries[i].id}) = 1
              /\ EntryById(entries', entries[i].id).next > timer
        /\ nfired' = nfired + Cardinality(Due(entries, timer))
        /\ Due(entries', timer) = {}
        /\ timer' > now

\* A firing starts each job it serves once and schedules it strictly
\* after the current time.
OneDispatchPerDue ==
    nfired' # nfired => \A e \in Started :
        /\ Cardinality({o \in Started : o.entry = e.entry}) = 1
        /\ EntryById(entries', e.entry).next > now

SendCompletes ==
    /\ printing' = printing
    /\ \E e \in execs : /\ Gone(e)
                        /\ e.pc = "returned"
                        /\ runs' = Append(runs, RunOf(e))

\* The step is a receive: a Logger takes the Run at the head of the
\* buffer; the rest of the buffer keeps its order, and when senders are
\* blocked on the open channel the Run of the one that blocked first
\* enters at the tail.
ReceivesHead ==
    /\ runs # <<>>
    /\ printing' = printing (+) Holding(Head(runs), "name")
    /\ \/ (sendq = <<>> \/ closed) /\ runs' = Tail(runs) /\ execs' = execs
       \/ /\ sendq # <<>>
          /\ ~closed
          /\ runs' = Append(Tail(runs), Head(sendq).run)
          /\ \E e \in execs : /\ Gone(e)
                              /\ e.pc = "parked"
                              /\ e.fid = Head(sendq).fid

\* Every step that changes the buffer or hands a Run to a Logger is the
\* completion of one send at the tail or a receive from the head.
FifoStep ==
    (runs' # runs \/ BagCardinality(printing') > BagCardinality(printing))
        => (SendCompletes \/ ReceivesHead)

\* C18: the Logger receives the Runs in the order in which the executions
\* completed their send on s.runs, first in first out; no Run overtakes
\* another in the channel.  That order need not be the order of firing.
C18_FifoCompletionOrder == [][FifoStep]_vars

\* C18's case: job a was started a second before job b; the buffer held
\* b's Run ahead of the Run of a's later execution, with the sender of
\* a's earlier one blocked; the one Logger received b's Run first, and the
\* buffer now holds a's two Runs in the order of their sends, the longer
\* execution last.
C18_Witness ==
    /\ OwnMethodsOnly
    /\ panicked = "none"
    /\ nstarts = 1
    /\ loggers = 1
    /\ nfired = 3
    /\ sendq = <<>>
    /\ stdout # <<>>
    /\ stdout[1].fmt = "Running %s: " /\ stdout[1].arg = <<"b">>
    /\ Len(runs) = 2
    /\ runs[1].Name = <<"a">> /\ runs[2].Name = <<"a">>
    /\ runs[1].Duration < runs[2].Duration

\* C19: whatever the sequence of Start and Stop calls, at most one Logger
\* goroutine reads s.runs at any time: a second Start does not add a
\* second consumer.
C19_SingleConsumer == OwnMethodsOnly => loggers <= 1

\* Execution e belongs to file f: it runs f's content under f's job name.
ExecOf(e, f) == e.content = f.data /\ e.name = JobName(f.name)

\* Every execution of runFunc in flight runs the content of the file its
\* entry was registered from, under the name derived from that file, no
\* firing has two executions, and every entry of runFunc has the name,
\* the content and the spec of one file.
OwnContent ==
    /\ \A e \in execs : e.fn = "runFunc" =>
          /\ \E f \in ValidFiles : ExecOf(e, f)
          /\ \A i \in DOMAIN entries :
                entries[i].id = e.entry
                    => /\ entries[i].content = e.content
                       /\ entries[i].name = e.name
          /\ OwnMethodsOnly => \E i \in DOMAIN entries : entries[i].id = e.entry
    /\ \A e1, e2 \in execs : e1.fid = e2.fid => e1 = e2
    /\ \A i \in DOMAIN entries : entries[i].fn = "runFunc" =>
          \E f \in ValidFiles :
              /\ entries[i].content = f.data
              /\ entries[i].name = JobName(f.name)
              /\ entries[i].sched = Schedules[f].sched

\* A firing calls Execute once: its execution enters Execute once, leaves
\* it once and never comes back to it; and the Run that leaves with an
\* execution carries the name of the file whose content it executed.
ExecuteOnce ==
    execs' # execs =>
    /\ \A e \in Started : e.pc = "spawned"
    /\ \A e \in execs : \A n \in execs' :
          (n.fid = e.fid /\ n # e)
              => /\ n.content = e.content /\ n.name = e.name
                 /\ n.entry = e.entry
                 /\ <<e.pc, n.pc>> \in {<<"spawned", "exec">>,
                                        <<"exec", "returned">>,
                                        <<"returned", "parked">>}
                 /\ e.pc # "spawned" => n.start = e.start
    /\ \A e \in execs :
          (e.pc \in {"returned", "parked"} /\ Gone(e) /\ ~closed')
              => \E f \in ValidFiles :
                    /\ ExecOf(e, f)
                    /\ runs'[Len(runs')].Name = JobName(f.name)

\* C20: each firing calls Execute exactly once, with the content of the
\* file its job was registered from, and its Run carries the name derived
\* from that file; with several jobs registered, no firing executes the
\* content or reports the name of another job.
C20_OwnContentAndName == [](OwnContent) /\ [][ExecuteOnce]_vars

\* C20's case: two jobs with different contents are registered and fired:
\* the Run of b is printed and the execution of a has returned from
\* Execute of a's content.
C20_Witness ==
    /\ OwnMethodsOnly
    /\ panicked = "none"
    /\ PrintedName(JobName(FileB.name))
    /\ \E e \in execs : /\ e.pc = "returned"
                        /\ ExecOf(e, FileA)
    /\ \E i, j \in DOMAIN entries : entries[i].content # entries[j].content

====
